---- MODULE Spec2Model ----
(***************************************************************************)
(* Model of the bxCAN driver of oxcc-stm32f767-hal (src/src/can.rs):       *)
(* frame codec, transmit mailbox arbitration with its bounded completion   *)
(* wait, and the receive engine over the two hardware FIFOs.               *)
(*                                                                         *)
(* Registers are records of their bit fields (a 32-bit register value does *)
(* not fit the model checker's integers); a field write keeps the low bits *)
(* that fit the field, as the svd2rust field writers do.                   *)
(***************************************************************************)
EXTENDS Integers, Sequences, FiniteSets, TLC

VARIABLES
    tir,             \* CAN_TIxR  per mailbox: [stid, exid, ide, rtr, txrq]
    tdtr,            \* CAN_TDTxR per mailbox: [dlc, tgt]
    tdlr,            \* CAN_TDLxR per mailbox: lanes DATA0..DATA3
    tdhr,            \* CAN_TDHxR per mailbox: lanes DATA4..DATA7
    tsr,             \* CAN_TSR   per mailbox: [tme, rqcp, txok, abrq]
    rxfifo,          \* per FIFO: the queued messages, head = output mailbox
    rfr,             \* CAN_RFxR  per FIFO: [fovr, full]  (FMP = queue length)
    overflow_checks, \* build profile: are arithmetic overflow checks compiled in
    pc,              \* position of the driver call in progress
    frame,           \* argument of the transmit call in progress
    sel,             \* mailbox selected by transmit
    index,           \* local `index` of the payload loop of transmit_mbX
    ticks,           \* local `ticks` of transmit_mbX
    rqcp,            \* local `rqcp` of get_tx_status
    txok,            \* local `txok` of get_tx_status
    op,              \* which operation the current / last call is
    result,          \* result of the last finished call
    rx_frame,        \* frame carried by an Ok result of receive
    log,             \* register accesses of the current / last call, in order
    tme_seen,        \* values of TMEx read by the mailbox selection, in order
    polls,           \* history: status polls of this call that returned false
    seen_complete,   \* history: some poll of this call read all three bits set
    calls,           \* history: number of transmit calls started
    timed_out,       \* history: has a transmit call returned Timeout so far
    pre_mb,          \* history: mailbox registers when the call started
    rx_sel,          \* history: FIFO argument of the last receive call
    rx_pending,      \* history: pending count when the last receive started
    rx_after,        \* history: pending count when the last receive returned
    rx_head,         \* history: output mailbox when the last receive started
    deposited,       \* history: per FIFO, the frames the hardware deposited
    returned,        \* history: per FIFO, the frames receive returned Ok
    overrun,         \* history: per FIFO, has a deposit been lost to overrun
    fmr,             \* CAN_FMR of the CAN1 block: [finit, can2sb]
    fa1r,            \* CAN_FA1R:  set of the bit positions that are 1
    fs1r,            \* CAN_FS1R:  set of the bit positions that are 1
    fm1r,            \* CAN_FM1R:  set of the bit positions that are 1
    ffa1r,           \* CAN_FFA1R: set of the bit positions that are 1
    fr1,             \* CAN_FiR1 of the filters written so far: word [hi, lo]
    fr2,             \* CAN_FiR2 of the filters written so far: word [hi, lo]
    config,          \* argument of the last configure_filter call
    pre_flt,         \* history: filter registers when that call started
    flt_calls,       \* history: number of configure_filter calls
    flt_ctx,         \* per handle: the configure_filter call it is in or made last
    enr,             \* RCC_APB1ENR  per instance: CANxEN
    rstr,            \* RCC_APB1RSTR per instance: CANxRST
    mcr,             \* CAN_MCR per instance
    msr,             \* CAN_MSR per instance: [inak, slak, wkui]
    btr,             \* CAN_BTR per instance
    inst,            \* instance under construction (1 = CAN1, 2 = CAN2)
    settings,        \* argument of the constructor call
    step,            \* position of the constructor in its statements
    built,           \* history: per instance, what its constructor left
    tim,             \* the last Timer::start: its tick count and what it computed
    clk              \* the last CFGR::freeze: its sysclk and what it computed

vars == <<tir, tdtr, tdlr, tdhr, tsr, rxfifo, rfr, overflow_checks, pc, frame,
          sel, index, ticks, rqcp, txok, op, result, rx_frame, log,
          tme_seen, polls, seen_complete, calls, timed_out, pre_mb, rx_sel, rx_pending,
          rx_after, rx_head, deposited, returned, overrun, fmr, fa1r, fs1r,
          fm1r, ffa1r, fr1, fr2, config, pre_flt, flt_calls, flt_ctx, enr,
          rstr, mcr, msr, btr, inst, settings, step, built, tim, clk>>

hw_tx == <<tir, tdtr, tdlr, tdhr, tsr>>
hw_rx == <<rxfifo, rfr>>
tx_locals == <<frame, sel, index, ticks, rqcp, txok, tme_seen, polls,
               seen_complete, calls, timed_out, pre_mb>>
flt_regs == <<fmr, fa1r, fs1r, fm1r, ffa1r, fr1, fr2>>
flt_side == <<flt_regs, config, pre_flt, flt_calls, flt_ctx>>
init_regs == <<enr, rstr, mcr, msr, btr>>
init_side == <<init_regs, inst, settings, step, built>>
\* What neither transmit nor receive touches.
periph == <<tim, clk>>
build == <<overflow_checks, periph, flt_side, init_side>>
rx_hist == <<rx_sel, rx_pending, rx_after, rx_head, deposited, returned,
             overrun>>

(***************************************************************************)
(* Constants of the program and bounds of the model.                       *)
(***************************************************************************)
MAX_BLOCK_TICKS == 160

\* bounds
MaxCalls == 1
MaxDeposits == 3
MaxFilterCalls == 2
MaxWaits == 2
MaxAttempts == 2
MaxSeqCalls == 3

Mailboxes == 0..2
Fifos == 0..1

StidWidth == 2^11
ExidWidth == 2^18
DlcWidth == 2^4
U16 == 2^16

Min(a, b) == IF a < b THEN a ELSE b

RECURSIVE BitOr(_, _)
BitOr(a, b) ==
    IF a = 0 THEN b
    ELSE IF b = 0 THEN a
    ELSE (IF a % 2 = 1 \/ b % 2 = 1 THEN 1 ELSE 0) + 2 * BitOr(a \div 2, b \div 2)

B2N(b) == IF b THEN 1 ELSE 0

(***************************************************************************)
(* Frames (embedded_types::can): an identifier variant with its value, a   *)
(* Data/Remote tag and the payload data() of a data frame.                  *)
(***************************************************************************)
BaseID(v) == [variant |-> "BaseID", value |-> v]
ExtendedID(v) == [variant |-> "ExtendedID", value |-> v]
DataFrame(id, data) == [tag |-> "DataFrame", id |-> id, data |-> data]
RemoteFrame(id) == [tag |-> "RemoteFrame", id |-> id, data |-> <<>>]
NoFrame == [tag |-> "None", id |-> [variant |-> "None", value |-> 0], data |-> <<>>]

\* One register access: op is "R" or "W".
Ev(o, reg, idx, field, val) ==
    [op |-> o, reg |-> reg, idx |-> idx, field |-> field, val |-> val]

\* The byte lanes DATA0..DATA7 of the two data registers.
LaneField(i) == <<"DATA0", "DATA1", "DATA2", "DATA3",
                  "DATA4", "DATA5", "DATA6", "DATA7">>[i + 1]

ResetTir == [stid |-> 0, exid |-> 0, ide |-> FALSE, rtr |-> FALSE, txrq |-> FALSE]
ResetTdtr == [dlc |-> 0, tgt |-> FALSE]
ResetTsr == [tme |-> TRUE, rqcp |-> FALSE, txok |-> FALSE, abrq |-> FALSE]
ResetRfr == [fovr |-> FALSE, full |-> FALSE]
Lanes(v) == <<v, v, v, v>>

(***************************************************************************)
(* Transmit: mailbox selection (transmit), the encoder and the completion  *)
(* wait (transmit_mb0 / transmit_mb1 / transmit_mb2, which are the same    *)
(* text over the registers of mailbox 0 / 1 / 2), one register access per  *)
(* step so that the hardware can act between any two of them.              *)
(***************************************************************************)
NoSel == 0 - 1

SelPc(i) == IF i = 0 THEN "sel0" ELSE IF i = 1 THEN "sel1" ELSE "sel2"

\* Mutant: mailbox 1 is taken whatever its empty flag reads.
transmit_select_any1(i, t) ==
    IF t \/ i = 1 THEN [pc |-> "ld_id", sel |-> i, result |-> "None"]
    ELSE IF i < 2 THEN [pc |-> SelPc(i + 1), sel |-> NoSel, result |-> "None"]
    ELSE [pc |-> "idle", sel |-> NoSel, result |-> "BufferExhausted"]

\* Mutant: mailbox 0 is taken whatever its empty flag reads.
transmit_select_first(i, t) == [pc |-> "ld_id", sel |-> i, result |-> "None"]

\* Mutant: with all three flags clear, mailbox 2 is loaded all the same.
transmit_select_last(i, t) ==
    IF t \/ i = 2 THEN [pc |-> "ld_id", sel |-> i, result |-> "None"]
    ELSE [pc |-> SelPc(i + 1), sel |-> NoSel, result |-> "None"]

\* Mutant: mailbox 0 is never taken.
transmit_select_skip0(i, t) ==
    IF t /\ i > 0 THEN [pc |-> "ld_id", sel |-> i, result |-> "None"]
    ELSE IF i < 2 THEN [pc |-> SelPc(i + 1), sel |-> NoSel, result |-> "None"]
    ELSE [pc |-> "idle", sel |-> NoSel, result |-> "BufferExhausted"]

\* transmit(): what follows the read of TMEi, which returned t.
transmit_select(i, t) ==
    IF t THEN [pc |-> "ld_id", sel |-> i, result |-> "None"]
    ELSE IF i < 2 THEN [pc |-> SelPc(i + 1), sel |-> NoSel, result |-> "None"]
    ELSE [pc |-> "idle", sel |-> NoSel, result |-> "BufferExhausted"]

\* tir.write(...): the identifier register starts from its reset value.
WriteId(id) ==
    IF id.variant = "ExtendedID"
    THEN [ResetTir EXCEPT !.ide = TRUE, !.exid = id.value % ExidWidth]
    ELSE [ResetTir EXCEPT !.stid = (id.value % U16) % StidWidth]

\* Mutant: the remote bit is never written.
AfterIdNoRtr(fr) == "ld_dlc"

\* The position after the write of a step of the encoder.
AfterId(fr) == IF fr.tag = "RemoteFrame" THEN "ld_rtr" ELSE "ld_dlc"
AfterDlc(fr) == IF fr.tag = "DataFrame" /\ Len(fr.data) > 0 THEN "ld_data" ELSE "ld_tgt"
\* Mutant: the payload loop stops after its first byte.
AfterDataFirstOnly(fr, i) == "ld_tgt"

AfterData(fr, i) == IF i + 1 < Len(fr.data) THEN "ld_data" ELSE "ld_tgt"

\* Mutant: transmit-ok is not part of the completion status.
TxStatusNoTxok(r, t, e) == r /\ e

\* Mutant: an empty mailbox counts as a completed transmission.
TxStatusEmptyOnly(r, t, e) == e

\* get_tx_status: rqcp && txok && tme
TxStatus(r, t, e) == r /\ t /\ e

\* Mutant: the budget is one tick longer.
TickExpiredLate(t) == t > MAX_BLOCK_TICKS

\* if ticks >= MAX_BLOCK_TICKS
TickExpired(t) == t >= MAX_BLOCK_TICKS

\* Mutant: the abort takes effect with the write, the mailbox is empty at once.
tsr_abort_sync(r, i) ==
    [j \in DOMAIN r |->
        IF j = i THEN [tme |-> TRUE, rqcp |-> TRUE, txok |-> FALSE, abrq |-> FALSE]
        ELSE [tme |-> r[j].tme, rqcp |-> FALSE, txok |-> FALSE, abrq |-> r[j].abrq]]

\* self.can.tsr.modify(|_, w| w.abrqX().set_bit()): the register after the value
\* r that was read is written back with ABRQi set.  RQCP and TXOK are cleared by
\* writing 1: every such flag that was read set is cleared by the write back
\* (one that was read clear is written 0 and stays clear).  ABRQ has no effect
\* on a mailbox that is not pending.
tsr_abort(r, i) ==
    [j \in DOMAIN r |->
        [tme |-> r[j].tme, rqcp |-> FALSE, txok |-> FALSE,
         abrq |-> IF j = i THEN ~r[j].tme ELSE r[j].abrq]]

Snapshot == [tir |-> [i \in Mailboxes |-> [tir[i] EXCEPT !.txrq = FALSE]],
             tdtr |-> tdtr, tdlr |-> tdlr, tdhr |-> tdhr]

\* A transmit call is entered.
TxEnter(fr) ==
    /\ pc = "idle"
    /\ frame' = fr
    /\ op' = "transmit"
    /\ pc' = SelPc(0)
    /\ sel' = NoSel
    /\ index' = 0
    /\ ticks' = 0
    /\ rqcp' = FALSE
    /\ txok' = FALSE
    /\ result' = "None"
    /\ rx_frame' = NoFrame
    /\ log' = <<>>
    /\ tme_seen' = <<>>
    /\ polls' = 0
    /\ seen_complete' = FALSE
    /\ calls' = calls + 1
    /\ timed_out' = timed_out
    /\ pre_mb' = Snapshot
    /\ UNCHANGED <<hw_tx, hw_rx, build, rx_hist>>

TxCall(fr) ==
    /\ calls < MaxCalls
    /\ TxEnter(fr)

\* A transmit call of a sequence of calls made one after the other.
TxAgain(fr) ==
    /\ calls < MaxAttempts
    /\ TxEnter(fr)

\* A transmit call of a sequence that starts with every mailbox empty.
TxSeq(fr) ==
    /\ calls < MaxSeqCalls
    /\ TxEnter(fr)

TxSelect(i) ==
    /\ pc = SelPc(i)
    /\ LET t == tsr[i].tme
           n == transmit_select(i, t)
       IN /\ tme_seen' = Append(tme_seen, t)
          /\ pc' = n.pc
          /\ sel' = n.sel
          /\ result' = n.result
    /\ UNCHANGED <<hw_tx, hw_rx, build, frame, index, ticks, rqcp, txok,
                   op, rx_frame, log, polls, seen_complete, calls, timed_out, pre_mb, rx_hist>>

tx_frame_rest == <<hw_rx, build, frame, sel, ticks, rqcp, txok, op,
                   result, rx_frame, tme_seen, polls, seen_complete, calls,
                   timed_out, pre_mb, rx_hist>>

TxWriteId ==
    /\ pc = "ld_id"
    /\ tir' = [tir EXCEPT ![sel] = WriteId(frame.id)]
    /\ log' = Append(log, Ev("W", "TIR", sel,
                             IF frame.id.variant = "ExtendedID" THEN "EXID" ELSE "STID",
                             IF frame.id.variant = "ExtendedID"
                             THEN tir'[sel].exid ELSE tir'[sel].stid))
    /\ pc' = AfterId(frame)
    /\ UNCHANGED <<tdtr, tdlr, tdhr, tsr, index, tx_frame_rest>>

TxSetRtr ==
    /\ pc = "ld_rtr"
    /\ tir' = [tir EXCEPT ![sel].rtr = TRUE]
    /\ log' = Append(log, Ev("W", "TIR", sel, "RTR", 1))
    /\ pc' = "ld_dlc"
    /\ UNCHANGED <<tdtr, tdlr, tdhr, tsr, index, tx_frame_rest>>

TxWriteDlc ==
    /\ pc = "ld_dlc"
    /\ LET n == IF frame.tag = "DataFrame" THEN Len(frame.data) % DlcWidth ELSE 0
       IN /\ tdtr' = [tdtr EXCEPT ![sel] = [ResetTdtr EXCEPT !.dlc = n]]
          /\ log' = Append(log, Ev("W", "TDTR", sel, "DLC", n))
    /\ index' = 0
    /\ pc' = AfterDlc(frame)
    /\ UNCHANGED <<tir, tdlr, tdhr, tsr, tx_frame_rest>>

\* One iteration of `for index in 0..df.data().len()`.
TxWriteData ==
    /\ pc = "ld_data"
    /\ IF index < 4
       THEN /\ tdlr' = [tdlr EXCEPT ![sel][index + 1] = frame.data[index + 1]]
            /\ log' = Append(log, Ev("W", "TDLR", sel, LaneField(index),
                                     frame.data[index + 1]))
            /\ UNCHANGED <<tdhr, result>>
            /\ pc' = AfterData(frame, index)
       ELSE IF index < 8
       THEN /\ tdhr' = [tdhr EXCEPT ![sel][index - 3] = frame.data[index + 1]]
            /\ log' = Append(log, Ev("W", "TDHR", sel, LaneField(index),
                                     frame.data[index + 1]))
            /\ UNCHANGED <<tdlr, result>>
            /\ pc' = AfterData(frame, index)
       ELSE /\ result' = "InvalidFrame"
            /\ pc' = "idle"
            /\ UNCHANGED <<tdlr, tdhr, log>>
    /\ index' = index + 1
    /\ UNCHANGED <<tir, tdtr, tsr, hw_rx, build, frame, sel, ticks, rqcp,
                   txok, op, rx_frame, tme_seen, polls, seen_complete, calls,
                   timed_out, pre_mb, rx_hist>>

TxClearTgt ==
    /\ pc = "ld_tgt"
    /\ tdtr' = [tdtr EXCEPT ![sel].tgt = FALSE]
    /\ log' = Append(log, Ev("W", "TDTR", sel, "TGT", 0))
    /\ pc' = "ld_txrq"
    /\ UNCHANGED <<tir, tdlr, tdhr, tsr, index, tx_frame_rest>>

\* tir.modify(|_, w| w.txrq().set_bit()): the request makes the mailbox pending;
\* the hardware clears TME, and RQCP / TXOK of the previous request.
TxRequest ==
    /\ pc = "ld_txrq"
    /\ tir' = [tir EXCEPT ![sel].txrq = TRUE]
    /\ tsr' = [tsr EXCEPT ![sel] = [tme |-> FALSE, rqcp |-> FALSE, txok |-> FALSE,
                                    abrq |-> FALSE]]
    /\ log' = Append(log, Ev("W", "TIR", sel, "TXRQ", 1))
    /\ ticks' = 0
    /\ pc' = "poll_rqcp"
    /\ UNCHANGED <<tdtr, tdlr, tdhr, hw_rx, build, frame, sel, index, rqcp,
                   txok, op, result, rx_frame, tme_seen, polls, seen_complete,
                   calls, timed_out, pre_mb, rx_hist>>

TxPollRqcp ==
    /\ pc = "poll_rqcp"
    /\ rqcp' = tsr[sel].rqcp
    /\ pc' = "poll_txok"
    /\ UNCHANGED <<hw_tx, hw_rx, build, frame, sel, index, ticks, txok, op,
                   result, rx_frame, log, tme_seen, polls, seen_complete, calls,
                   timed_out, pre_mb, rx_hist>>

TxPollTxok ==
    /\ pc = "poll_txok"
    /\ txok' = tsr[sel].txok
    /\ pc' = "poll_tme"
    /\ UNCHANGED <<hw_tx, hw_rx, build, frame, sel, index, ticks, rqcp, op,
                   result, rx_frame, log, tme_seen, polls, seen_complete, calls,
                   timed_out, pre_mb, rx_hist>>

\* The third read of get_tx_status, the loop test and the loop body.
TxPollTme ==
    /\ pc = "poll_tme"
    /\ LET tme == tsr[sel].tme
           all3 == rqcp /\ txok /\ tme
       IN /\ seen_complete' = (seen_complete \/ all3)
          /\ IF TxStatus(rqcp, txok, tme)
             THEN /\ result' = "Ok"
                  /\ pc' = "idle"
                  /\ UNCHANGED <<ticks, polls, tsr, log>>
             ELSE /\ ticks' = ticks + 1
                  /\ polls' = polls + 1
                  /\ IF TickExpired(ticks + 1)
                     THEN \* self.can.tsr.modify(|_, w| w.abrqX().set_bit())
                          /\ tsr' = tsr_abort(tsr, sel)
                          /\ log' = Append(log, Ev("W", "TSR", sel, "ABRQ", 1))
                          /\ result' = "Timeout"
                          /\ pc' = "idle"
                     ELSE /\ pc' = "poll_rqcp"
                          /\ UNCHANGED <<tsr, log, result>>
    /\ rqcp' = FALSE
    /\ txok' = FALSE
    /\ timed_out' = (timed_out \/ result' = "Timeout")
    /\ UNCHANGED <<tir, tdtr, tdlr, tdhr, hw_rx, build, frame, sel, index,
                   op, rx_frame, tme_seen, calls, pre_mb, rx_hist>>

(***************************************************************************)
(* The transmit side of the controller: a pending mailbox (TXRQ set) is    *)
(* sent, fails, or is aborted on request; each empties the mailbox.        *)
(***************************************************************************)
hw_tx_rest == <<tdtr, tdlr, tdhr, hw_rx, build, pc, tx_locals, op, result,
                rx_frame, log, rx_hist>>

HwTxOk(i) ==
    /\ tir[i].txrq
    /\ tir' = [tir EXCEPT ![i].txrq = FALSE]
    /\ tsr' = [tsr EXCEPT ![i] = [tme |-> TRUE, rqcp |-> TRUE, txok |-> TRUE,
                                  abrq |-> FALSE]]
    /\ UNCHANGED hw_tx_rest

HwTxFail(i) ==
    /\ tir[i].txrq
    /\ tir' = [tir EXCEPT ![i].txrq = FALSE]
    /\ tsr' = [tsr EXCEPT ![i] = [tme |-> TRUE, rqcp |-> TRUE, txok |-> FALSE,
                                  abrq |-> FALSE]]
    /\ UNCHANGED hw_tx_rest

HwAbort(i) ==
    /\ tir[i].txrq
    /\ tsr[i].abrq
    /\ tir' = [tir EXCEPT ![i].txrq = FALSE]
    /\ tsr' = [tsr EXCEPT ![i] = [tme |-> TRUE, rqcp |-> TRUE, txok |-> FALSE,
                                  abrq |-> FALSE]]
    /\ UNCHANGED hw_tx_rest

(***************************************************************************)
(* Receive.  A message in a FIFO is the content of the FIFO's output       *)
(* mailbox registers: [rir: [stid, exid, ide, rtr], rdtr: [dlc], rdlr,     *)
(* rdhr].  With no message pending the output mailbox reads as reset.      *)
(***************************************************************************)
ResetSlot == [rir |-> [stid |-> 0, exid |-> 0, ide |-> FALSE, rtr |-> FALSE],
              rdtr |-> [dlc |-> 0], rdlr |-> Lanes(0), rdhr |-> Lanes(0)]

OutputMailbox(f) == IF Len(rxfifo[f]) > 0 THEN Head(rxfifo[f]) ELSE ResetSlot

\* Mutant: the pending count is not checked.
RxEmptyNever(pending) == FALSE

\* if pending == 0 { return Err(CanError::BufferExhausted); }
RxEmpty(pending) == pending = 0

\* receive_fifo0: ExtendedID::new(rir.read().bits() >> 3 as u32)
\* (bits 31:3 of the register are STID followed by EXID)
ext_id_fifo0(rir) == rir.stid * ExidWidth + rir.exid

\* receive_fifo1: rir.read().exid().bits() | (rir.read().stid().bits() << 18) as u32
\* stid().bits() is a u16: the shift by 18 overflows it.  Without overflow checks
\* the shift amount wraps to 18 mod 16; with them the shift panics.
ext_id_fifo1(rir) == BitOr(rir.exid, (rir.stid * 2^(18 % 16)) % U16)

\* Mutant: the lane match has no invalid arm.
LaneInvalidNever(i) == FALSE

\* The `_ => return Err(CanError::InvalidFrame)` arm of the lane match.
LaneInvalid(i) == i >= 8

\* Mutant: the release writes the flags back as read.
rfr_release_keep(r) == [rfom |-> TRUE, fovr |-> r.fovr, full |-> r.full]

\* The value written by rfr.modify(|_, w| w.rfomX().set_bit().fovrX().clear_bit()
\* .fullX().clear_bit()) over the value r read: [rfom, fovr, full].
rfr_release(r) == [rfom |-> TRUE, fovr |-> FALSE, full |-> FALSE]

RfrVal(w) == 4 * B2N(w.rfom) + 2 * B2N(w.fovr) + B2N(w.full)

\* The release, as register accesses.
ReleaseLog(f) ==
    <<Ev("R", "RFR", f, "ALL", 4 * 0 + 2 * B2N(rfr[f].fovr) + B2N(rfr[f].full)),
      Ev("W", "RFR", f, "ALL", RfrVal(rfr_release([rfom |-> FALSE, fovr |-> rfr[f].fovr,
                                                   full |-> rfr[f].full])))>>

\* The decoder after the identifier has been read (both FIFOs, same text).
receive_tail(f, slot, id, pre) ==
    LET dlc == slot.rdtr.dlc
        hdr == pre \o <<Ev("R", "RIR", f, "RTR", B2N(slot.rir.rtr)),
                        Ev("R", "RDTR", f, "DLC", dlc)>>
        n == IF \E i \in 0..(dlc - 1) : LaneInvalid(i)
             THEN CHOOSE i \in 0..(dlc - 1) :
                      LaneInvalid(i) /\ \A j \in 0..(i - 1) : ~LaneInvalid(j)
             ELSE dlc
        lanes == [i \in 1..Min(n, 8) |->
                     Ev("R", IF i <= 4 THEN "RDLR" ELSE "RDHR", f, LaneField(i - 1),
                        IF i <= 4 THEN slot.rdlr[i] ELSE slot.rdhr[i - 4])]
        data == [i \in 1..Min(n, 8) |-> lanes[i].val]
    IN IF slot.rir.rtr
       THEN [status |-> "Ok", frame |-> RemoteFrame(id),
             log |-> hdr \o ReleaseLog(f), release |-> TRUE]
       ELSE IF n < dlc
       THEN [status |-> "InvalidFrame", frame |-> NoFrame,
             log |-> hdr \o lanes, release |-> FALSE]
       ELSE [status |-> "Ok", frame |-> DataFrame(id, data),
             log |-> hdr \o lanes \o ReleaseLog(f), release |-> TRUE]

receive_fifo0 ==
    LET f == 0
        pending == Len(rxfifo[f])
        slot == OutputMailbox(f)
        fmp == <<Ev("R", "RFR", f, "FMP", pending)>>
        ide == <<Ev("R", "RIR", f, "IDE", B2N(slot.rir.ide))>>
    IN IF RxEmpty(pending)
       THEN [status |-> "BufferExhausted", frame |-> NoFrame, log |-> fmp,
             release |-> FALSE]
       ELSE IF slot.rir.ide
       THEN receive_tail(f, slot, ExtendedID(ext_id_fifo0(slot.rir)),
                         fmp \o ide \o <<Ev("R", "RIR", f, "ALL", 0)>>)
       ELSE receive_tail(f, slot, BaseID(slot.rir.stid),
                         fmp \o ide \o <<Ev("R", "RIR", f, "STID", slot.rir.stid)>>)

receive_fifo1 ==
    LET f == 1
        pending == Len(rxfifo[f])
        slot == OutputMailbox(f)
        fmp == <<Ev("R", "RFR", f, "FMP", pending)>>
        ide == <<Ev("R", "RIR", f, "IDE", B2N(slot.rir.ide))>>
        idl == <<Ev("R", "RIR", f, "EXID", slot.rir.exid),
                 Ev("R", "RIR", f, "STID", slot.rir.stid)>>
    IN IF RxEmpty(pending)
       THEN [status |-> "BufferExhausted", frame |-> NoFrame, log |-> fmp,
             release |-> FALSE]
       ELSE IF slot.rir.ide /\ overflow_checks
       THEN [status |-> "Panic", frame |-> NoFrame, log |-> fmp \o ide \o idl,
             release |-> FALSE]
       ELSE IF slot.rir.ide
       THEN receive_tail(f, slot, ExtendedID(ext_id_fifo1(slot.rir)), fmp \o ide \o idl)
       ELSE receive_tail(f, slot, BaseID(slot.rir.stid),
                         fmp \o ide \o <<Ev("R", "RIR", f, "STID", slot.rir.stid)>>)

\* Mutant: the FIFO is released on the error return as well.
receive_release_on_error(f) ==
    LET r == IF f = 0 THEN receive_fifo0 ELSE receive_fifo1
    IN [r EXCEPT !.release = (r.status \in {"Ok", "InvalidFrame"})]

\* receive(): match fifo { Fifo0 => receive_fifo0(), Fifo1 => receive_fifo1() }
receive(f) == IF f = 0 THEN receive_fifo0 ELSE receive_fifo1

\* One receive call.  The write of RFOM releases the output mailbox: the hardware
\* frees that slot, and the next message, if any, becomes the output mailbox.
Receive(f) ==
    /\ pc = "idle"
    /\ LET r == receive(f)
       IN /\ result' = r.status
          /\ rx_frame' = r.frame
          /\ log' = r.log
          /\ pc' = IF r.status = "Panic" THEN "panicked" ELSE "idle"
          /\ IF r.release
             THEN /\ rxfifo' = [rxfifo EXCEPT ![f] = IF Len(@) > 0 THEN Tail(@) ELSE @]
                  /\ rfr' = [rfr EXCEPT ![f] =
                                [fovr |-> rfr_release([rfom |-> FALSE, fovr |-> @.fovr,
                                                       full |-> @.full]).fovr,
                                 full |-> rfr_release([rfom |-> FALSE, fovr |-> @.fovr,
                                                       full |-> @.full]).full]]
             ELSE UNCHANGED <<rxfifo, rfr>>
          /\ returned' = IF r.status = "Ok"
                         THEN [returned EXCEPT ![f] = Append(@, r.frame)]
                         ELSE returned
    /\ op' = "receive"
    /\ rx_sel' = f
    /\ rx_pending' = Len(rxfifo[f])
    /\ rx_after' = Len(rxfifo'[f])
    /\ rx_head' = OutputMailbox(f)
    /\ UNCHANGED <<hw_tx, build, tx_locals, deposited, overrun>>

(***************************************************************************)
(* The receive side of the controller.  A frame on the bus is               *)
(* [tag, id, dlc, data]; the hardware stores it in the next free slot of   *)
(* the FIFO its filter assigns, or, with all three slots in use, loses a   *)
(* frame and flags the overrun.                                            *)
(***************************************************************************)
Slot(w) ==
    [rir |-> [stid |-> IF w.id.variant = "ExtendedID"
                       THEN w.id.value \div ExidWidth ELSE w.id.value,
              exid |-> IF w.id.variant = "ExtendedID"
                       THEN w.id.value % ExidWidth ELSE 0,
              ide |-> w.id.variant = "ExtendedID",
              rtr |-> w.tag = "RemoteFrame"],
     rdtr |-> [dlc |-> w.dlc],
     rdlr |-> [k \in 1..4 |-> IF k <= Len(w.data) THEN w.data[k] ELSE 0],
     rdhr |-> [k \in 1..4 |-> IF k + 4 <= Len(w.data) THEN w.data[k + 4] ELSE 0]]

\* The frame a bus frame stands for.
FrameOfWire(w) ==
    IF w.tag = "RemoteFrame" THEN RemoteFrame(w.id) ELSE DataFrame(w.id, w.data)

Wire(tag, id, dlc, data) == [tag |-> tag, id |-> id, dlc |-> dlc, data |-> data]

hw_rx_rest == <<hw_tx, build, pc, tx_locals, op, result, rx_frame, log,
                rx_sel, rx_pending, rx_after, rx_head, returned>>

HwDeposit(f, w) ==
    /\ Len(rxfifo[f]) < 3
    /\ Len(deposited[0]) + Len(deposited[1]) < MaxDeposits
    /\ rxfifo' = [rxfifo EXCEPT ![f] = Append(@, Slot(w))]
    /\ rfr' = [rfr EXCEPT ![f].full = (Len(rxfifo[f]) = 2)]
    /\ deposited' = [deposited EXCEPT ![f] = Append(@, w)]
    /\ UNCHANGED <<overrun, hw_rx_rest>>

HwOverrun(f, w, lock) ==
    /\ Len(rxfifo[f]) = 3
    /\ rxfifo' = [rxfifo EXCEPT ![f] = IF lock THEN @ ELSE [@ EXCEPT ![3] = Slot(w)]]
    /\ rfr' = [rfr EXCEPT ![f].fovr = TRUE]
    /\ overrun' = [overrun EXCEPT ![f] = TRUE]
    /\ UNCHANGED <<deposited, hw_rx_rest>>

(***************************************************************************)
(* Acceptance filters.  Both controller instances program the filter       *)
(* registers of the CAN1 block.  A 32 bit word is [hi, lo], its two 16 bit *)
(* halves; a bit-mask register is the set of the positions of its 1 bits.  *)
(* The content of a filter's FiR1/FiR2 is undefined until it is written:   *)
(* fr1 and fr2 map the filters written so far to what was written.         *)
(***************************************************************************)
Filters == 0..27
Can2sbWidth == 2^6

Word(hi, lo) == [hi |-> hi, lo |-> lo]

\* (a << 16) | b in u32: the high half of a is shifted out, the high half of
\* b is OR-ed into the shifted low half of a.
ShlOr16(a, b) == Word(BitOr(a.lo, b.hi), b.lo)

\* CanFilterConfig::default()
DefaultFilter ==
    [filter_number |-> 0, bank_number |-> 14, fifo_assignment |-> "Fifo0",
     mode |-> "IdMask", scale |-> "Fs32Bit",
     filter_id_high |-> Word(0, 0), filter_id_low |-> Word(0, 0),
     filter_mask_id_high |-> Word(0, 0), filter_mask_id_low |-> Word(0, 0),
     enabled |-> TRUE]

ResetFmr == [finit |-> TRUE, can2sb |-> 14]

FltRegs == [fmr |-> fmr, fa1r |-> fa1r, fs1r |-> fs1r, fm1r |-> fm1r,
            ffa1r |-> ffa1r, fr1 |-> fr1, fr2 |-> fr2]

\* `1 << config.filter_number` is a u32 shifted by a u8: with overflow checks
\* a shift by 32 or more panics, without them the amount is taken modulo 32.
ShiftPanics(n) == overflow_checks /\ n >= 32
\* The position of the one bit of filter_num_bitpos.
filter_num_bitpos(n) == n % 32

\* Mutant: the cleared bit takes every other bit of the register with it.
BitClearAll(r, b) == {}

\* r.bits() & !filter_num_bitpos and r.bits() | filter_num_bitpos
BitClear(r, b) == r \ {b}
BitSet(r, b) == r \cup {b}

\* Mutant: the second register of a 32 bit filter takes its low half from
\* filter_mask_id_low.
fr2_value_mask_low(c) ==
    IF c.scale = "Fs16Bit" THEN ShlOr16(c.filter_mask_id_high, c.filter_id_high)
    ELSE ShlOr16(c.filter_mask_id_high, c.filter_mask_id_low)

\* The words set_filter_scale writes to FiR1 and FiR2.
fr1_value(c) ==
    IF c.scale = "Fs16Bit" THEN ShlOr16(c.filter_mask_id_low, c.filter_id_low)
    ELSE ShlOr16(c.filter_id_high, c.filter_id_low)

fr2_value(c) ==
    IF c.scale = "Fs16Bit" THEN ShlOr16(c.filter_mask_id_high, c.filter_id_high)
    ELSE ShlOr16(c.filter_mask_id_high, c.filter_mask_id_high)

\* Mutant: the start bank is left as it is.
configure_filter_steps_no_bank ==
    <<"finit_set", "deactivate", "scale", "fr1", "fr2", "mode", "fifo",
      "activate", "finit_clear">>

\* Mutant: the start bank is selected before initialization mode is entered.
configure_filter_steps_bank_first ==
    <<"can2sb", "finit_set", "deactivate", "scale", "fr1", "fr2", "mode",
      "fifo", "activate", "finit_clear">>

\* Mutant: initialization mode is left before the filter is activated.
configure_filter_steps_leave_early ==
    <<"finit_set", "can2sb", "deactivate", "scale", "fr1", "fr2", "mode",
      "fifo", "finit_clear", "activate">>

\* Mutant: the filter is activated before its mode and FIFO are written.
configure_filter_steps_early ==
    <<"finit_set", "can2sb", "deactivate", "scale", "fr1", "fr2", "activate",
      "mode", "fifo", "finit_clear">>

\* The register accesses of configure_filter (with set_filter_scale inlined),
\* in program order.
configure_filter_steps ==
    <<"finit_set", "can2sb", "deactivate", "scale", "fr1", "fr2", "mode",
      "fifo", "activate", "finit_clear">>

\* The `_ => return Err(CanError::ConfigurationFailed)` arms.
StepFails(s, c) == s \in {"fr1", "fr2"} /\ c.filter_number \notin Filters

ApplyStep(st, s, c) ==
    LET b == filter_num_bitpos(c.filter_number)
        n == c.filter_number
        wr(reg, idx, field, val) == Append(st.log, Ev("W", reg, idx, field, val))
    IN CASE s = "finit_set" ->
              [st EXCEPT !.fmr.finit = TRUE, !.log = wr("FMR", 0, "FINIT", 1)]
         [] s = "can2sb" ->
              [st EXCEPT !.fmr.can2sb = c.bank_number % Can2sbWidth,
                         !.log = wr("FMR", 0, "CAN2SB", c.bank_number % Can2sbWidth)]
         [] s = "deactivate" ->
              [st EXCEPT !.fa1r = BitClear(@, b), !.log = wr("FA1R", b, "BIT", 0)]
         [] s = "scale" ->
              IF c.scale = "Fs16Bit"
              THEN [st EXCEPT !.fs1r = BitClear(@, b), !.log = wr("FS1R", b, "BIT", 0)]
              ELSE [st EXCEPT !.fs1r = BitSet(@, b), !.log = wr("FS1R", b, "BIT", 1)]
         [] s = "fr1" ->
              [st EXCEPT !.fr1 = (n :> fr1_value(c)) @@ @,
                         !.log = wr("FR1", n, "BITS", 0)]
         [] s = "fr2" ->
              [st EXCEPT !.fr2 = (n :> fr2_value(c)) @@ @,
                         !.log = wr("FR2", n, "BITS", 0)]
         [] s = "mode" ->
              IF c.mode = "IdMask"
              THEN [st EXCEPT !.fm1r = BitClear(@, b), !.log = wr("FM1R", b, "BIT", 0)]
              ELSE [st EXCEPT !.fm1r = BitSet(@, b), !.log = wr("FM1R", b, "BIT", 1)]
         [] s = "fifo" ->
              IF c.fifo_assignment = "Fifo0"
              THEN [st EXCEPT !.ffa1r = BitClear(@, b), !.log = wr("FFA1R", b, "BIT", 0)]
              ELSE [st EXCEPT !.ffa1r = BitSet(@, b), !.log = wr("FFA1R", b, "BIT", 1)]
         [] s = "activate" ->
              IF c.enabled
              THEN [st EXCEPT !.fa1r = BitSet(@, b), !.log = wr("FA1R", b, "BIT", 1)]
              ELSE st
         [] s = "finit_clear" ->
              [st EXCEPT !.fmr.finit = FALSE, !.log = wr("FMR", 0, "FINIT", 0)]

RECURSIVE RunSteps(_, _, _)
RunSteps(st, steps, c) ==
    IF steps = <<>> THEN [st EXCEPT !.status = "Ok"]
    ELSE IF StepFails(Head(steps), c)
    THEN [ApplyStep(st, "finit_clear", c) EXCEPT !.status = "ConfigurationFailed"]
    ELSE RunSteps(ApplyStep(st, Head(steps), c), Tail(steps), c)

configure_filter(c) ==
    LET st == [fmr |-> fmr, fa1r |-> fa1r, fs1r |-> fs1r, fm1r |-> fm1r,
               ffa1r |-> ffa1r, fr1 |-> fr1, fr2 |-> fr2, log |-> <<>>,
               status |-> "None"]
    IN IF ShiftPanics(c.filter_number) THEN [st EXCEPT !.status = "Panic"]
       ELSE RunSteps(st, configure_filter_steps, c)

ConfigureFilter(c) ==
    /\ pc = "idle"
    /\ flt_calls < MaxFilterCalls
    /\ \E r \in {configure_filter(c)} :
          /\ fmr' = r.fmr
          /\ fa1r' = r.fa1r
          /\ fs1r' = r.fs1r
          /\ fm1r' = r.fm1r
          /\ ffa1r' = r.ffa1r
          /\ fr1' = r.fr1
          /\ fr2' = r.fr2
          /\ log' = r.log
          /\ result' = r.status
          /\ pc' = IF r.status = "Panic" THEN "panicked" ELSE "idle"
    /\ op' = "configure_filter"
    /\ config' = c
    /\ pre_flt' = FltRegs
    /\ flt_calls' = flt_calls + 1
    /\ UNCHANGED <<hw_tx, hw_rx, overflow_checks, periph, tx_locals, rx_hist, rx_frame,
                   flt_ctx, init_side>>

(***************************************************************************)
(* The constructors can1 and can2 (one macro body, instantiated twice).    *)
(* Instance 1 is CAN1, instance 2 is CAN2.                                 *)
(***************************************************************************)
Instances == 1..2

SjwWidth == 2^2
Ts1Width == 2^4
Ts2Width == 2^3
\* Mutant: the prescaler field takes all 16 bits of the value.
BrpWidthWide == U16

BrpWidth == 2^10

\* Register values after a peripheral reset.
ResetMcr == [reset |-> FALSE, sleep |-> TRUE, inrq |-> FALSE, ttcm |-> FALSE,
             abom |-> FALSE, awum |-> FALSE, nart |-> FALSE, rflm |-> FALSE,
             txfp |-> FALSE, dbf |-> TRUE]
ResetMsr == [inak |-> FALSE, slak |-> TRUE, wkui |-> FALSE]
ResetBtr == [silm |-> FALSE, lbkm |-> FALSE, sjw |-> 1, ts1 |-> 3, ts2 |-> 2,
             brp |-> 0]

\* CanConfig::default()
DefaultConfig ==
    [loopback_mode |-> FALSE, silent_mode |-> FALSE, ttcm |-> FALSE,
     abom |-> TRUE, awum |-> FALSE, nart |-> FALSE, rflm |-> FALSE,
     txfp |-> FALSE,
     bit_timing |-> [prescaler |-> 5, sjw |-> 0, bs1 |-> 14, bs2 |-> 1]]

InitRegsOf(i) == [enr |-> enr[i], rstr |-> rstr[i], mcr |-> mcr[i],
                  msr |-> msr[i], btr |-> btr[i]]
NotBuilt == [done |-> FALSE,
             regs |-> [enr |-> FALSE, rstr |-> FALSE, mcr |-> ResetMcr,
                       msr |-> ResetMsr, btr |-> ResetBtr]]

\* Mutant: both instances wait for the acknowledgment of the exit request.
init_wait_always(i) == TRUE

\* hal! { CAN1: (can1, can1en, can1rst, true), CAN2: (can2, can2en, can2rst, false) }
init_wait(i) == i = 1

\* Mutant: both instances pulse the reset line of CAN1.
canXrst_shared(i) == 1

\* The reset line and the clock enable an instance's constructor names.
canXrst(i) == i
canXen(i) == i

\* Mutant: the acknowledgment is awaited before the request is made.
ctor_steps_wait_first ==
    <<"enable", "rst_set", "rst_clear", "mreset", "sleep", "wait_init",
      "inrq", "wkui", "ttcm", "abom", "awum", "nart", "rflm", "txfp",
      "dbf", "silm", "lbkm", "sjw", "ts2", "ts1", "brp", "leave",
      "wait_leave">>

\* Mutant: the settings are applied before initialization mode is entered.
ctor_steps_early ==
    <<"enable", "rst_set", "rst_clear", "mreset", "sleep", "ttcm", "inrq",
      "wait_init", "wkui", "abom", "awum", "nart", "rflm", "txfp", "dbf",
      "silm", "lbkm", "sjw", "ts2", "ts1", "brp", "leave", "wait_leave">>

\* The statements of the constructor in program order.
ctor_steps ==
    <<"enable", "rst_set", "rst_clear", "mreset", "sleep", "inrq",
      "wait_init", "wkui", "ttcm", "abom", "awum", "nart", "rflm", "txfp",
      "dbf", "silm", "lbkm", "sjw", "ts2", "ts1", "brp", "leave",
      "wait_leave">>

CtorAt(name) == pc = "ctor" /\ step <= Len(ctor_steps) /\ ctor_steps[step] = name

MsrReads == Cardinality({k \in 1..Len(log) : log[k].op = "R"})

CtorCall(i, s) ==
    /\ pc = "idle"
    /\ ~built[i].done
    /\ pc' = "ctor"
    /\ op' = "ctor"
    /\ inst' = i
    /\ settings' = s
    /\ step' = 1
    /\ result' = "None"
    /\ log' = <<>>
    /\ UNCHANGED <<hw_tx, hw_rx, overflow_checks, periph, tx_locals, rx_hist, rx_frame,
                   flt_side, init_regs, built>>

\* One register write of the constructor.  A reset request takes effect at
\* once: the instance's registers return to their reset values.
CtorWrite ==
    /\ pc = "ctor"
    /\ step <= Len(ctor_steps)
    /\ ctor_steps[step] \notin {"wait_init", "wait_leave"}
    /\ LET name == ctor_steps[step]
           i == inst
           b2n(v) == IF v THEN 1 ELSE 0
           t == settings.bit_timing
           mcrw(f, v) == /\ mcr' = [mcr EXCEPT ![i][f] = v]
                         /\ log' = Append(log, Ev("W", "MCR", i, f, b2n(v)))
                         /\ UNCHANGED <<enr, rstr, msr, btr>>
           btrb(f, v) == /\ btr' = [btr EXCEPT ![i][f] = v]
                         /\ log' = Append(log, Ev("W", "BTR", i, f, b2n(v)))
                         /\ UNCHANGED <<enr, rstr, mcr, msr>>
           btrn(f, v) == /\ btr' = [btr EXCEPT ![i][f] = v]
                         /\ log' = Append(log, Ev("W", "BTR", i, f, v))
                         /\ UNCHANGED <<enr, rstr, mcr, msr>>
       IN CASE name = "enable" ->
                 /\ enr' = [enr EXCEPT ![canXen(i)] = TRUE]
                 /\ log' = Append(log, Ev("W", "ENR", canXen(i), "CANEN", 1))
                 /\ UNCHANGED <<rstr, mcr, msr, btr>>
            [] name = "rst_set" ->
                 /\ rstr' = [rstr EXCEPT ![canXrst(i)] = TRUE]
                 /\ mcr' = [mcr EXCEPT ![canXrst(i)] = ResetMcr]
                 /\ msr' = [msr EXCEPT ![canXrst(i)] = ResetMsr]
                 /\ btr' = [btr EXCEPT ![canXrst(i)] = ResetBtr]
                 /\ log' = Append(log, Ev("W", "RSTR", canXrst(i), "CANRST", 1))
                 /\ UNCHANGED enr
            [] name = "rst_clear" ->
                 /\ rstr' = [rstr EXCEPT ![canXrst(i)] = FALSE]
                 /\ log' = Append(log, Ev("W", "RSTR", canXrst(i), "CANRST", 0))
                 /\ UNCHANGED <<enr, mcr, msr, btr>>
            [] name = "mreset" ->
                 /\ mcr' = [mcr EXCEPT ![i] = ResetMcr]
                 /\ msr' = [msr EXCEPT ![i] = ResetMsr]
                 /\ log' = Append(log, Ev("W", "MCR", i, "reset", 1))
                 /\ UNCHANGED <<enr, rstr, btr>>
            [] name = "sleep" -> mcrw("sleep", FALSE)
            [] name = "inrq" -> mcrw("inrq", TRUE)
            [] name = "wkui" ->
                 /\ msr' = [msr EXCEPT ![i].wkui = FALSE]
                 /\ log' = Append(log, Ev("W", "MSR", i, "wkui", 0))
                 /\ UNCHANGED <<enr, rstr, mcr, btr>>
            [] name = "ttcm" -> mcrw("ttcm", settings.ttcm)
            [] name = "abom" -> mcrw("abom", settings.abom)
            [] name = "awum" -> mcrw("awum", settings.awum)
            [] name = "nart" -> mcrw("nart", settings.nart)
            [] name = "rflm" -> mcrw("rflm", settings.rflm)
            [] name = "txfp" -> mcrw("txfp", settings.txfp)
            [] name = "dbf" -> mcrw("dbf", FALSE)
            [] name = "silm" -> btrb("silm", settings.silent_mode)
            [] name = "lbkm" -> btrb("lbkm", settings.loopback_mode)
            [] name = "sjw" -> btrn("sjw", t.sjw % SjwWidth)
            [] name = "ts2" -> btrn("ts2", t.bs2 % Ts2Width)
            [] name = "ts1" -> btrn("ts1", t.bs1 % Ts1Width)
            [] name = "brp" -> btrn("brp", t.prescaler % BrpWidth)
            [] name = "leave" -> mcrw("inrq", FALSE)
    /\ step' = step + 1
    /\ UNCHANGED <<hw_tx, hw_rx, overflow_checks, periph, tx_locals, rx_hist, rx_frame,
                   flt_side, pc, op, result, inst, settings, built>>

\* Ok(Can { can, pins })
CtorReturn ==
    /\ pc = "ctor"
    /\ step = Len(ctor_steps) + 1
    /\ pc' = "idle"
    /\ result' = "Ok"
    /\ built' = [built EXCEPT ![inst] = [done |-> TRUE, regs |-> InitRegsOf(inst)]]
    /\ UNCHANGED <<hw_tx, hw_rx, overflow_checks, periph, tx_locals, rx_hist, rx_frame,
                   flt_side, init_regs, op, log, inst, settings, step>>

\* while can.msr.read().inak().bit() == false {}
CtorWaitInit ==
    /\ CtorAt("wait_init")
    /\ msr[inst].inak \/ MsrReads < MaxWaits
    /\ log' = Append(log, Ev("R", "MSR", inst, "inak", IF msr[inst].inak THEN 1 ELSE 0))
    /\ step' = IF msr[inst].inak THEN step + 1 ELSE step
    /\ UNCHANGED <<hw_tx, hw_rx, overflow_checks, periph, tx_locals, rx_hist, rx_frame,
                   flt_side, init_regs, pc, op, result, inst, settings, built>>

\* if $init_wait { while can.msr.read().inak().bit() == true {} }
CtorWaitLeave ==
    /\ CtorAt("wait_leave")
    /\ IF init_wait(inst)
       THEN /\ ~msr[inst].inak \/ MsrReads < 2 * MaxWaits + 1
            /\ log' = Append(log, Ev("R", "MSR", inst, "inak",
                                     IF msr[inst].inak THEN 1 ELSE 0))
            /\ step' = IF msr[inst].inak THEN step ELSE step + 1
       ELSE /\ step' = step + 1
            /\ UNCHANGED log
    /\ UNCHANGED <<hw_tx, hw_rx, overflow_checks, periph, tx_locals, rx_hist, rx_frame,
                   flt_side, init_regs, pc, op, result, inst, settings, built>>

\* The controller enters initialization mode on request, and leaves it when
\* the request is withdrawn, each some time after the write.
HwInitAck(i) ==
    /\ mcr[i].inrq
    /\ ~msr[i].inak
    /\ msr' = [msr EXCEPT ![i].inak = TRUE, ![i].slak = FALSE]
    /\ UNCHANGED <<hw_tx, hw_rx, overflow_checks, periph, tx_locals, rx_hist, rx_frame,
                   flt_side, enr, rstr, mcr, btr, pc, op, result, log, inst,
                   settings, built, step>>

HwInitLeave(i) ==
    /\ ~mcr[i].inrq
    /\ msr[i].inak
    /\ msr' = [msr EXCEPT ![i].inak = FALSE]
    /\ UNCHANGED <<hw_tx, hw_rx, overflow_checks, periph, tx_locals, rx_hist, rx_frame,
                   flt_side, enr, rstr, mcr, btr, pc, op, result, log, inst,
                   settings, built, step>>

(***************************************************************************)
(* configure_filter one register access at a time, for two execution       *)
(* contexts that each hold one of the two handles.  flt_ctx[h] is the call *)
(* made through handle h: pos is its position in configure_filter_steps (0 *)
(* when it is not in a call), pre and post are the filter registers when   *)
(* it started and when it returned, alone tells that no access of the      *)
(* other context fell between the two, log is the sequence of its register *)
(* accesses, blocks is the set of the register blocks it accessed, and     *)
(* outside is the set of its accesses (positions in log) made while FINIT  *)
(* read clear.                                                             *)
(***************************************************************************)
NoCall == [pos |-> 0, config |-> DefaultFilter, status |-> "None",
           pre |-> FltRegs, post |-> FltRegs, alone |-> TRUE, log |-> <<>>,
           blocks |-> {}, outside |-> {}]

FltState(regs, lg) ==
    [fmr |-> regs.fmr, fa1r |-> regs.fa1r, fs1r |-> regs.fs1r, fm1r |-> regs.fm1r,
     ffa1r |-> regs.ffa1r, fr1 |-> regs.fr1, fr2 |-> regs.fr2, log |-> lg,
     status |-> "None"]

\* Mutant: each handle programs the register block of its own instance.
filter_block_own(h) == h

\* let can = unsafe { &*CAN1::ptr() };
filter_block(h) == 1

FltCall(h, c) ==
    /\ pc = "idle"
    /\ built[h].done
    /\ flt_ctx[h].pos = 0
    /\ flt_calls < MaxFilterCalls
    /\ LET o == 3 - h
           busy == flt_ctx[o].pos > 0
           panics == ShiftPanics(c.filter_number)
       IN /\ flt_ctx' = [flt_ctx EXCEPT
                            ![h] = [pos |-> IF panics THEN 0 ELSE 1, config |-> c,
                                    status |-> IF panics THEN "Panic" ELSE "None",
                                    pre |-> FltRegs, post |-> FltRegs,
                                    alone |-> ~busy, log |-> <<>>,
                                    blocks |-> {}, outside |-> {}],
                            ![o].alone = @ /\ ~busy]
          /\ log' = <<>>
          /\ pc' = IF panics THEN "panicked" ELSE "idle"
          /\ result' = IF panics THEN "Panic" ELSE "None"
    /\ op' = "configure_filter"
    /\ config' = c
    /\ pre_flt' = FltRegs
    /\ flt_calls' = flt_calls + 1
    /\ UNCHANGED <<flt_regs, hw_tx, hw_rx, overflow_checks, periph, tx_locals, rx_hist,
                   rx_frame, init_side>>

\* The next register access of the call in progress through handle h.  Only
\* the filter registers of the CAN1 block are connected to the filter bank.
FltStep(h) ==
    /\ pc = "idle"
    /\ flt_ctx[h].pos \in 1..Len(configure_filter_steps)
    /\ LET x == flt_ctx[h]
           s == configure_filter_steps[x.pos]
           fails == StepFails(s, x.config)
           last == fails \/ x.pos = Len(configure_filter_steps)
           status == IF fails THEN "ConfigurationFailed"
                     ELSE IF last THEN "Ok" ELSE "None"
           blk == filter_block(h)
       IN \E r \in {ApplyStep(FltState(FltRegs, x.log),
                              IF fails THEN "finit_clear" ELSE s, x.config)} :
             /\ IF blk = 1
                THEN /\ fmr' = r.fmr
                     /\ fa1r' = r.fa1r
                     /\ fs1r' = r.fs1r
                     /\ fm1r' = r.fm1r
                     /\ ffa1r' = r.ffa1r
                     /\ fr1' = r.fr1
                     /\ fr2' = r.fr2
                ELSE UNCHANGED flt_regs
             /\ result' = IF last THEN status ELSE result
             /\ flt_ctx' = [flt_ctx EXCEPT
                               ![h] = [x EXCEPT
                                         !.pos = IF last THEN 0 ELSE @ + 1,
                                         !.status = status,
                                         !.post = FltRegs',
                                         !.log = r.log,
                                         !.blocks = IF Len(r.log) > Len(x.log)
                                                    THEN @ \cup {blk} ELSE @,
                                         !.outside = IF Len(r.log) > Len(x.log)
                                                        /\ ~fmr.finit
                                                     THEN @ \cup {Len(r.log)}
                                                     ELSE @]]
    /\ UNCHANGED <<config, pre_flt, flt_calls, pc, op, log, hw_tx, hw_rx,
                   overflow_checks, periph, tx_locals, rx_hist, rx_frame, init_side>>

(***************************************************************************)
(* Timer (src/src/timer.rs), CountDown::start: the prescaler and the       *)
(* auto-reload value computed from the tick count.  A u32 is a word        *)
(* [hi, lo] of two 16 bit halves; the arithmetic is done on the halves and *)
(* on 8 bit digits, so that no intermediate value exceeds 2^31.            *)
(***************************************************************************)
WordDec(t) == IF t.lo > 0 THEN Word(t.hi, t.lo - 1) ELSE Word(t.hi - 1, U16 - 1)
WordLeq(a, b) == a.hi < b.hi \/ (a.hi = b.hi /\ a.lo <= b.lo)

\* t / d in u32 for 1 <= d <= 2^16, by long division over the four bytes of t:
\* [quot, rem].
WordDiv(t, d) ==
    LET digit == <<t.hi \div 256, t.hi % 256, t.lo \div 256, t.lo % 256>>
        next(a, k) ==
            LET n == a.rem * 256 + digit[k]
                q == n \div d
            IN [quot |-> Word((a.quot.hi % 256) * 256 + (a.quot.lo \div 256),
                              (a.quot.lo % 256) * 256 + q),
                rem |-> n % d]
    IN next(next(next(next([quot |-> Word(0, 0), rem |-> 0], 1), 2), 3), 4)

\* d * a for d <= 2^16 and a < 2^16, as a word whose hi may exceed 16 bits.
WordMul(d, a) ==
    LET x == d * (a \div 256)
        y == d * (a % 256)
        lo == (x % 256) * 256 + (y % U16)
    IN Word((x \div 256) + (y \div U16) + (lo \div U16), lo % U16)

NoStart == [status |-> "None", ticks |-> Word(0, 1), psc |-> 0, arr |-> Word(0, 0)]

\* (ticks - 1) / (1 << 16), the high half of ticks - 1
psc_of(t) == WordDec(t).hi

\* let psc = u16((ticks - 1) / (1 << 16)).unwrap();
\* let arr = u16(ticks / u32(psc + 1)).unwrap();
\* `psc + 1` is a u16 addition: at 65535 it panics with overflow checks, and
\* wraps to 0 without them, which makes the division panic.
start(t) ==
    LET psc == psc_of(t)
        arr == WordDiv(t, psc + 1).quot
    IN IF psc >= U16  \* u16(..) of the prescaler
       THEN [status |-> "Panic", ticks |-> t, psc |-> psc, arr |-> Word(0, 0)]
       ELSE IF psc + 1 >= U16
       THEN [status |-> "Panic", ticks |-> t, psc |-> psc, arr |-> Word(0, 0)]
       ELSE IF arr.hi > 0
       THEN [status |-> "Panic", ticks |-> t, psc |-> psc, arr |-> arr]
       ELSE [status |-> "Started", ticks |-> t, psc |-> psc, arr |-> arr]

TimerStart(t) ==
    /\ tim.status = "None"
    /\ tim' = start(t)
    /\ UNCHANGED <<clk, overflow_checks, hw_tx, hw_rx, flt_side, init_side, pc,
                   tx_locals, op, result, rx_frame, log, rx_hist>>

(***************************************************************************)
(* Clocks (src/src/rcc.rs), the PLL branch of CFGR::freeze: the bus        *)
(* prescaler bits, the divisors computed from them and the bus clocks.     *)
(***************************************************************************)
NoFreeze == [status |-> "None", sysclk |-> 0, hclk |-> 0, ppre1_bits |-> 0,
             ppre2_bits |-> 0, ppre1 |-> 1, ppre2 |-> 1, pclk1 |-> 0, pclk2 |-> 0]

ppre2_bits_of(sysclk) == IF sysclk > 108000000 THEN 4 ELSE 0
ppre1_bits_of(sysclk) ==
    IF sysclk > 108000000 THEN 5 ELSE IF sysclk > 54000000 THEN 4 ELSE 0

\* 1 << (bits - 0b011): bits is a u8 and the 1 a u32.  With overflow checks a
\* subtraction below zero panics; without them it wraps modulo 2^8 and the
\* shift amount is taken modulo 32.
divisor_of_bits(bits) ==
    IF bits < 3
    THEN [panic |-> overflow_checks, value |-> 2^(((bits + 256 - 3) % 256) % 32)]
    ELSE [panic |-> FALSE, value |-> 2^(bits - 3)]

\* The PLL branch, for a sysclk the assertion accepts.
freeze(sysclk) ==
    LET hclk == sysclk
        b1 == ppre1_bits_of(sysclk)
        b2 == ppre2_bits_of(sysclk)
        d1 == divisor_of_bits(b1)
        d2 == divisor_of_bits(b2)
    IN [status |-> IF d1.panic \/ d2.panic THEN "Panic" ELSE "Frozen",
        sysclk |-> sysclk, hclk |-> hclk, ppre1_bits |-> b1, ppre2_bits |-> b2,
        ppre1 |-> d1.value, ppre2 |-> d2.value,
        pclk1 |-> hclk \div d1.value, pclk2 |-> hclk \div d2.value]

Freeze(sysclk) ==
    /\ clk.status = "None"
    /\ sysclk >= 24000000 /\ sysclk <= 216000000
    /\ clk' = freeze(sysclk)
    /\ UNCHANGED <<tim, overflow_checks, hw_tx, hw_rx, flt_side, init_side, pc,
                   tx_locals, op, result, rx_frame, log, rx_hist>>

PeriphIdle == tim = NoStart /\ clk = NoFreeze

(***************************************************************************)
(* Inputs.                                                                 *)
(***************************************************************************)
BaseIds == {0, 1, 682, 2047}
ExtIds == {0, 1, 2^18 - 1, 2^18, 305419896, 2^29 - 1}
Ids == {BaseID(v) : v \in BaseIds} \cup {ExtendedID(v) : v \in ExtIds}

\* Payloads of every length 0..8: distinct bytes per lane, all ones, all zeroes.
Payloads ==
    UNION {{[i \in 1..n |-> 17 * i], [i \in 1..n |-> 255], [i \in 1..n |-> 0]} : n \in 0..8}

CodecFrames == {DataFrame(id, d) : id \in Ids, d \in Payloads}
                   \cup {RemoteFrame(id) : id \in Ids}

TxFrames == {DataFrame(BaseID(291), <<17, 34>>),
             DataFrame(ExtendedID(305419896), [i \in 1..8 |-> 17 * i]),
             RemoteFrame(ExtendedID(1))}

\* Data Frames that declare more than the eight bytes a mailbox holds.
OverlongFrames == {DataFrame(BaseID(5), [i \in 1..9 |-> 16 + i]),
                   DataFrame(ExtendedID(1), [i \in 1..10 |-> 255])}

RxWires == {Wire("DataFrame", BaseID(291), 2, <<17, 34>>),
            Wire("DataFrame", ExtendedID(2^18 + 1), 1, <<170>>),
            Wire("RemoteFrame", BaseID(2), 9, <<>>),
            Wire("DataFrame", ExtendedID(7), 10, [i \in 1..8 |-> 255])}

\* Filter configurations: every combination of a filter number, a scale and
\* the enabled flag with one of four settings of the remaining fields.
FilterNumberInputs == {0, 27, 28, 32, 255}
FilterVariants ==
    {[bank_number |-> 14, fifo_assignment |-> "Fifo0", mode |-> "IdMask",
      filter_id_high |-> Word(0, 4660), filter_id_low |-> Word(0, 22136),
      filter_mask_id_high |-> Word(0, 0), filter_mask_id_low |-> Word(0, 65535)],
     [bank_number |-> 0, fifo_assignment |-> "Fifo1", mode |-> "IdList",
      filter_id_high |-> Word(65535, 1), filter_id_low |-> Word(1, 2),
      filter_mask_id_high |-> Word(32768, 3), filter_mask_id_low |-> Word(32767, 4)],
     [bank_number |-> 28, fifo_assignment |-> "Fifo1", mode |-> "IdMask",
      filter_id_high |-> Word(0, 0), filter_id_low |-> Word(0, 0),
      filter_mask_id_high |-> Word(0, 0), filter_mask_id_low |-> Word(0, 0)],
     [bank_number |-> 255, fifo_assignment |-> "Fifo0", mode |-> "IdList",
      filter_id_high |-> Word(0, 1184), filter_id_low |-> Word(0, 1120),
      filter_mask_id_high |-> Word(0, 1152), filter_mask_id_low |-> Word(0, 1088)]}
FilterConfigs ==
    {[filter_number |-> n, bank_number |-> v.bank_number,
      fifo_assignment |-> v.fifo_assignment, mode |-> v.mode, scale |-> sc,
      filter_id_high |-> v.filter_id_high, filter_id_low |-> v.filter_id_low,
      filter_mask_id_high |-> v.filter_mask_id_high,
      filter_mask_id_low |-> v.filter_mask_id_low, enabled |-> en] :
        n \in FilterNumberInputs, v \in FilterVariants,
        sc \in {"Fs16Bit", "Fs32Bit"}, en \in BOOLEAN}

\* One successful 32 bit and one successful 16 bit configuration, one that
\* fails in set_filter_scale and one whose shift overflows.
SharedConfigs ==
    {c \in FilterConfigs :
        \/ c.filter_number = 0 /\ c.bank_number = 14 /\ c.scale = "Fs32Bit" /\ c.enabled
        \/ c.filter_number = 27 /\ c.bank_number = 0 /\ c.scale = "Fs16Bit" /\ c.enabled
        \/ c.filter_number = 28 /\ c.bank_number = 28 /\ c.scale = "Fs32Bit" /\ ~c.enabled
        \/ c.filter_number = 32 /\ c.bank_number = 255 /\ c.scale = "Fs16Bit" /\ c.enabled}

SettingsInputs ==
    {DefaultConfig,
     [loopback_mode |-> TRUE, silent_mode |-> TRUE, ttcm |-> TRUE,
      abom |-> FALSE, awum |-> TRUE, nart |-> TRUE, rflm |-> TRUE,
      txfp |-> TRUE,
      bit_timing |-> [prescaler |-> 1029, sjw |-> 3, bs1 |-> 15, bs2 |-> 7]],
     \* every bit-timing value beyond its register field
     [loopback_mode |-> FALSE, silent_mode |-> TRUE, ttcm |-> FALSE,
      abom |-> TRUE, awum |-> FALSE, nart |-> TRUE, rflm |-> FALSE,
      txfp |-> FALSE,
      bit_timing |-> [prescaler |-> 2055, sjw |-> 6, bs1 |-> 25, bs2 |-> 12]]}

\* Tick counts: around the multiples of 2^16 and at both ends of the range.
TickInputs ==
    {Word(hi, lo) : hi \in {0, 1, 2, 3, 255, 256, 1647, 32767, 32768, 65534, 65535},
                    lo \in {0, 1, 2, 255, 256, 32767, 32768, 54321, 65534, 65535}}
        \ {Word(0, 0)}

\* System clocks of the PLL branch, every MHz from 24 MHz to 216 MHz.
SysclkInputs == {m * 1000000 : m \in 24..216}

\* The filter registers after reset, no configure_filter call made.
FilterAtReset ==
    /\ fmr = ResetFmr
    /\ fa1r = {}
    /\ fs1r = {}
    /\ fm1r = {}
    /\ ffa1r = {}
    /\ fr1 = <<>>
    /\ fr2 = <<>>
    /\ config = DefaultFilter
    /\ pre_flt = FltRegs
    /\ flt_calls = 0
    /\ flt_ctx = [h \in Instances |-> NoCall]

\* Both controllers after power-on reset, no constructor called.
PowerOn ==
    /\ enr = [i \in Instances |-> FALSE]
    /\ rstr = [i \in Instances |-> FALSE]
    /\ mcr = [i \in Instances |-> ResetMcr]
    /\ msr = [i \in Instances |-> ResetMsr]
    /\ btr = [i \in Instances |-> ResetBtr]
    /\ inst = 1
    /\ settings = DefaultConfig
    /\ step = 1
    /\ built = [i \in Instances |-> NotBuilt]

\* CAN1 as can1 leaves it for CanConfig::default(); CAN2 untouched.
Constructed1 ==
    /\ enr = [i \in Instances |-> i = 1]
    /\ rstr = [i \in Instances |-> FALSE]
    /\ mcr = [i \in Instances |->
                 IF i = 1 THEN [ResetMcr EXCEPT !.sleep = FALSE, !.abom = TRUE,
                                                !.dbf = FALSE]
                 ELSE ResetMcr]
    /\ msr = [i \in Instances |->
                 IF i = 1 THEN [ResetMsr EXCEPT !.slak = FALSE] ELSE ResetMsr]
    /\ btr = [i \in Instances |->
                 IF i = 1 THEN [silm |-> FALSE, lbkm |-> FALSE, sjw |-> 0,
                                ts1 |-> 14, ts2 |-> 1, brp |-> 5]
                 ELSE ResetBtr]
    /\ inst = 1
    /\ settings = DefaultConfig
    /\ step = Len(ctor_steps) + 1
    /\ built = [i \in Instances |->
                   IF i = 1 THEN [done |-> TRUE, regs |-> InitRegsOf(1)]
                   ELSE NotBuilt]

\* CAN1 and then CAN2 constructed for CanConfig::default(), both out of
\* initialization mode.
ConstructedBoth ==
    /\ enr = [i \in Instances |-> TRUE]
    /\ rstr = [i \in Instances |-> FALSE]
    /\ mcr = [i \in Instances |-> [ResetMcr EXCEPT !.sleep = FALSE, !.abom = TRUE,
                                                   !.dbf = FALSE]]
    /\ msr = [i \in Instances |-> [ResetMsr EXCEPT !.slak = FALSE]]
    /\ btr = [i \in Instances |-> [silm |-> FALSE, lbkm |-> FALSE, sjw |-> 0,
                                   ts1 |-> 14, ts2 |-> 1, brp |-> 5]]
    /\ inst = 2
    /\ settings = DefaultConfig
    /\ step = Len(ctor_steps) + 1
    /\ built = [i \in Instances |-> [done |-> TRUE, regs |-> InitRegsOf(i)]]

(***************************************************************************)
(* The state after reset and construction: all mailboxes empty, both FIFOs *)
(* empty, no call in progress.                                             *)
(***************************************************************************)
InitDriver ==
    /\ tdtr = [i \in Mailboxes |-> ResetTdtr]
    /\ tdlr = [i \in Mailboxes |-> Lanes(0)]
    /\ tdhr = [i \in Mailboxes |-> Lanes(0)]
    /\ rxfifo = [f \in Fifos |-> <<>>]
    /\ rfr = [f \in Fifos |-> ResetRfr]
    /\ pc = "idle"
    /\ frame = NoFrame
    /\ sel = NoSel
    /\ index = 0
    /\ ticks = 0
    /\ rqcp = FALSE
    /\ txok = FALSE
    /\ op = "none"
    /\ result = "None"
    /\ rx_frame = NoFrame
    /\ log = <<>>
    /\ tme_seen = <<>>
    /\ polls = 0
    /\ seen_complete = FALSE
    /\ calls = 0
    /\ pre_mb = Snapshot
    /\ rx_sel = 0
    /\ rx_pending = 0
    /\ rx_after = 0
    /\ rx_head = ResetSlot
    /\ deposited = [f \in Fifos |-> <<>>]
    /\ returned = [f \in Fifos |-> <<>>]
    /\ overrun = [f \in Fifos |-> FALSE]

InitCommon ==
    /\ PeriphIdle
    /\ InitDriver
    /\ FilterAtReset
    /\ Constructed1

(***************************************************************************)
(* SpecTx: transmit calls against the transmit side of the controller.     *)
(***************************************************************************)
TxStep ==
    \/ \E i \in Mailboxes : TxSelect(i)
    \/ TxWriteId
    \/ TxSetRtr
    \/ TxWriteDlc
    \/ TxWriteData
    \/ TxClearTgt
    \/ TxRequest
    \/ TxPollRqcp
    \/ TxPollTxok
    \/ TxPollTme

NextTx ==
    \/ \E fr \in TxFrames : TxCall(fr)
    \/ TxStep
    \/ \E i \in Mailboxes : HwTxOk(i)
    \/ \E i \in Mailboxes : HwTxFail(i)
    \/ \E i \in Mailboxes : HwAbort(i)

\* Mailboxes 0..k-1 were each left pending, with the abort requested, by an
\* earlier call that timed out on the frame DataFrame(BaseID(0), <<>>).
LeftPending(k) ==
    /\ tir = [i \in Mailboxes |-> IF i < k THEN [ResetTir EXCEPT !.txrq = TRUE]
                                           ELSE ResetTir]
    /\ tsr = [i \in Mailboxes |-> IF i < k THEN [tme |-> FALSE, rqcp |-> FALSE,
                                                 txok |-> FALSE, abrq |-> TRUE]
                                           ELSE ResetTsr]
    /\ timed_out = (k > 0)

InitTx ==
    /\ overflow_checks = FALSE
    /\ \E k \in 0..3 : LeftPending(k)
    /\ InitCommon

SpecTx == InitTx /\ [][NextTx]_vars

(***************************************************************************)
(* SpecRetry: transmit calls made one after the other, the first with two  *)
(* mailboxes still pending, so that a call may find the mailbox of the     *)
(* call before it, which timed out, not yet aborted.  The first call sends  *)
(* a data frame, every later call a remote frame.                          *)
(***************************************************************************)
RetryFrames(n) ==
    IF n = 0 THEN {DataFrame(BaseID(291), <<17, 34>>)}
    ELSE {RemoteFrame(ExtendedID(1))}

NextRetry ==
    \/ \E fr \in RetryFrames(calls) : TxAgain(fr)
    \/ TxStep
    \/ \E i \in Mailboxes : HwTxOk(i)
    \/ \E i \in Mailboxes : HwTxFail(i)
    \/ \E i \in Mailboxes : HwAbort(i)

InitRetry ==
    /\ overflow_checks = FALSE
    /\ LeftPending(2)
    /\ InitCommon

SpecRetry == InitRetry /\ [][NextRetry]_vars

(***************************************************************************)
(* SpecSeq: transmit calls made one after the other from power-up, every   *)
(* mailbox empty at the first call.                                        *)
(***************************************************************************)
NextSeq ==
    \/ \E fr \in RetryFrames(calls) : TxSeq(fr)
    \/ TxStep
    \/ \E i \in Mailboxes : HwTxOk(i)
    \/ \E i \in Mailboxes : HwTxFail(i)
    \/ \E i \in Mailboxes : HwAbort(i)

InitSeq ==
    /\ overflow_checks = FALSE
    /\ LeftPending(0)
    /\ InitCommon

SpecSeq == InitSeq /\ [][NextSeq]_vars

(***************************************************************************)
(* SpecRx: receive calls against the receive side of the controller.       *)
(***************************************************************************)
NextRx ==
    \/ \E f \in Fifos : Receive(f)
    \/ \E f \in Fifos, w \in RxWires : HwDeposit(f, w)
    \/ \E f \in Fifos, w \in RxWires, lock \in BOOLEAN : HwOverrun(f, w, lock)

InitRx ==
    /\ overflow_checks \in BOOLEAN
    /\ LeftPending(0)
    /\ InitCommon

SpecRx == InitRx /\ [][NextRx]_vars

(***************************************************************************)
(* SpecCodec: the encoder and the decoder over a wide set of frames.  The  *)
(* call has selected mailbox sel (the mailboxes below it are pending); the *)
(* stale content of the data registers is arbitrary.  The controller, in   *)
(* loop back mode, stores the transmitted mailbox into FIFO rx_sel before  *)
(* the first status poll; receive then decodes what transmit encoded.      *)
(***************************************************************************)
MailboxSlot(i) ==
    [rir |-> [stid |-> tir[i].stid, exid |-> tir[i].exid, ide |-> tir[i].ide,
              rtr |-> tir[i].rtr],
     rdtr |-> [dlc |-> tdtr[i].dlc], rdlr |-> tdlr[i], rdhr |-> tdhr[i]]

\* The bus frame the controller sends for the content of a mailbox.
WireOfSlot(m) ==
    Wire(IF m.rir.rtr THEN "RemoteFrame" ELSE "DataFrame",
         IF m.rir.ide THEN ExtendedID(m.rir.stid * ExidWidth + m.rir.exid)
                      ELSE BaseID(m.rir.stid),
         m.rdtr.dlc,
         IF m.rir.rtr THEN <<>>
         ELSE [k \in 1..Min(m.rdtr.dlc, 8) |->
                  IF k <= 4 THEN m.rdlr[k] ELSE m.rdhr[k - 4]])

HwLoopback(i, f) ==
    /\ tir[i].txrq
    /\ Len(rxfifo[f]) < 3
    /\ tir' = [tir EXCEPT ![i].txrq = FALSE]
    /\ tsr' = [tsr EXCEPT ![i] = [tme |-> TRUE, rqcp |-> TRUE, txok |-> TRUE,
                                  abrq |-> FALSE]]
    /\ rxfifo' = [rxfifo EXCEPT ![f] = Append(@, MailboxSlot(i))]
    /\ rfr' = [rfr EXCEPT ![f].full = (Len(rxfifo[f]) = 2)]
    /\ deposited' = [deposited EXCEPT ![f] = Append(@, WireOfSlot(MailboxSlot(i)))]
    /\ UNCHANGED <<tdtr, tdlr, tdhr, build, pc, tx_locals, op, result,
                   rx_frame, log, rx_sel, rx_pending, rx_after, rx_head, returned,
                   overrun>>

InitCodec ==
    /\ overflow_checks \in BOOLEAN
    /\ PeriphIdle
    /\ sel \in Mailboxes
    /\ LeftPending(sel)
    /\ tdtr = [i \in Mailboxes |-> ResetTdtr]
    /\ \E stale \in {0, 238} :
          /\ tdlr = [i \in Mailboxes |-> Lanes(stale)]
          /\ tdhr = [i \in Mailboxes |-> Lanes(stale)]
    /\ rxfifo = [f \in Fifos |-> <<>>]
    /\ rfr = [f \in Fifos |-> ResetRfr]
    /\ pc = "ld_id"
    /\ frame \in CodecFrames \cup OverlongFrames
    /\ index = 0
    /\ ticks = 0
    /\ rqcp = FALSE
    /\ txok = FALSE
    /\ op = "transmit"
    /\ result = "None"
    /\ rx_frame = NoFrame
    /\ log = <<>>
    /\ tme_seen = [k \in 1..(sel + 1) |-> k = sel + 1]
    /\ polls = 0
    /\ seen_complete = FALSE
    /\ calls = 1
    /\ pre_mb = Snapshot
    /\ rx_sel \in Fifos
    /\ rx_pending = 0
    /\ rx_after = 0
    /\ rx_head = ResetSlot
    /\ deposited = [f \in Fifos |-> <<>>]
    /\ returned = [f \in Fifos |-> <<>>]
    /\ overrun = [f \in Fifos |-> FALSE]
    /\ FilterAtReset
    /\ Constructed1

CodecPoll ==
    /\ ~tir[sel].txrq
    /\ (TxPollRqcp \/ TxPollTxok \/ TxPollTme)

CodecReceive ==
    /\ op = "transmit"
    /\ result = "Ok"
    /\ Receive(rx_sel)

NextCodec ==
    \/ TxWriteId
    \/ TxSetRtr
    \/ TxWriteDlc
    \/ TxWriteData
    \/ TxClearTgt
    \/ TxRequest
    \/ (pc = "poll_rqcp" /\ HwLoopback(sel, rx_sel))
    \/ CodecPoll
    \/ CodecReceive

SpecCodec == InitCodec /\ [][NextCodec]_vars

(***************************************************************************)
(* SpecFilter: configure_filter calls on the shared filter registers.      *)
(***************************************************************************)
NextFilter == \E c \in FilterConfigs : ConfigureFilter(c)

InitFilter ==
    /\ overflow_checks \in BOOLEAN
    /\ LeftPending(0)
    /\ InitCommon

SpecFilter == InitFilter /\ [][NextFilter]_vars

(***************************************************************************)
(* SpecShared: configure_filter calls through both handles, from two       *)
(* execution contexts, interleaved at register-access granularity.         *)
(***************************************************************************)
NextShared ==
    \/ \E h \in Instances, c \in SharedConfigs : FltCall(h, c)
    \/ \E h \in Instances : FltStep(h)

InitShared ==
    /\ overflow_checks \in BOOLEAN
    /\ PeriphIdle
    /\ LeftPending(0)
    /\ InitDriver
    /\ FilterAtReset
    /\ ConstructedBoth

SpecShared == InitShared /\ [][NextShared]_vars

(***************************************************************************)
(* SpecInit: the two constructors, each called at most once (a constructor *)
(* consumes its peripheral), in either order, against the controllers.     *)
(***************************************************************************)
NextInit ==
    \/ \E i \in Instances, s \in SettingsInputs : CtorCall(i, s)
    \/ CtorWrite
    \/ CtorWaitInit
    \/ CtorWaitLeave
    \/ CtorReturn
    \/ \E i \in Instances : HwInitAck(i)
    \/ \E i \in Instances : HwInitLeave(i)

InitInit ==
    /\ overflow_checks = FALSE
    /\ PeriphIdle
    /\ LeftPending(0)
    /\ InitDriver
    /\ FilterAtReset
    /\ PowerOn

SpecInit == InitInit /\ [][NextInit]_vars

\* The processor keeps executing a constructor once called, and the controller
\* eventually acknowledges a standing request to enter or leave initialization.
CtorRun == CtorWrite \/ CtorWaitInit \/ CtorWaitLeave \/ CtorReturn

FairInit ==
    /\ WF_vars(CtorRun)
    /\ \A i \in Instances : WF_vars(HwInitAck(i))
    /\ \A i \in Instances : WF_vars(HwInitLeave(i))

SpecInitFair == SpecInit /\ FairInit

(***************************************************************************)
(* SpecTimer: Timer::start over the tick counts.  SpecClock: the PLL       *)
(* branch of CFGR::freeze over the system clocks.                          *)
(***************************************************************************)
NextTimer == \E t \in TickInputs : TimerStart(t)

InitPeriph ==
    /\ overflow_checks \in BOOLEAN
    /\ PeriphIdle
    /\ LeftPending(0)
    /\ InitDriver
    /\ FilterAtReset
    /\ PowerOn

SpecTimer == InitPeriph /\ [][NextTimer]_vars

NextClock == \E s \in SysclkInputs : Freeze(s)

SpecClock == InitPeriph /\ [][NextClock]_vars

(***************************************************************************)
(* C1.  Codec round trip: a Data Frame loaded into a transmit mailbox by   *)
(* transmit and decoded by receive from the same register contents comes   *)
(* back with the identical identifier variant and value, the Data tag, the *)
(* same length and the same bytes.                                         *)
(***************************************************************************)
C1_RoundTrip ==
    (op = "receive" /\ frame.tag = "DataFrame")
        => (result = "Ok" /\ rx_frame = frame)

(***************************************************************************)
(* Helpers of the claims over the access log of a call.                    *)
(***************************************************************************)
LogIdx(P(_)) == {k \in 1..Len(log) : P(log[k])}
IsWrite(e) == e.op = "W"
IsTsrWrite(e) == e.op = "W" /\ e.reg = "TSR"
IsTxrq(e) == e.op = "W" /\ e.reg = "TIR" /\ e.field = "TXRQ"
IsMailboxWrite(e) == e.op = "W" /\ e.reg \in {"TIR", "TDTR", "TDLR", "TDHR"}
IsRfrWrite(e) == e.op = "W" /\ e.reg = "RFR"
IsRxDataRead(e) == e.op = "R" /\ e.reg \in {"RIR", "RDTR", "RDLR", "RDHR"}
InTx == op = "transmit"
InRx == op = "receive"
Loaded == InTx /\ LogIdx(IsTxrq) # {}

\* The mailbox registers but for TXRQ, which the hardware resets.
MailboxRegs == [tir |-> [i \in Mailboxes |-> [tir[i] EXCEPT !.txrq = FALSE]],
                tdtr |-> tdtr, tdlr |-> tdlr, tdhr |-> tdhr]

(***************************************************************************)
(* C2.  Mailbox selection: transmit loads the lowest-numbered mailbox      *)
(* whose empty flag it read as set, reading TME0, TME1, TME2 in this       *)
(* order: the selected mailbox's flag was read set, every lower one was    *)
(* read clear before it, and only the selected mailbox is written.         *)
(***************************************************************************)
C2_MailboxSelection ==
    InTx =>
        /\ Len(tme_seen) <= 3
        /\ (sel # NoSel => tme_seen = [k \in 1..(sel + 1) |-> k = sel + 1])
        /\ (sel = NoSel => /\ \A k \in 1..Len(tme_seen) : ~tme_seen[k]
                           /\ LogIdx(IsWrite) = {})
        /\ \A k \in LogIdx(IsWrite) : log[k].idx = sel
        /\ \A i \in Mailboxes : MailboxRegs.tir[i] # pre_mb.tir[i]
                                    \/ tdtr[i] # pre_mb.tdtr[i]
                                    \/ tdlr[i] # pre_mb.tdlr[i]
                                    \/ tdhr[i] # pre_mb.tdhr[i]
                                    => i = sel

C2_Witness == InTx /\ sel = 2 /\ tir[2].txrq /\ tir[2].ide /\ tdtr[2].dlc = 8

(***************************************************************************)
(* C3.  Mailbox exhaustion: when TME0, TME1 and TME2 were all read clear,  *)
(* transmit returns BufferExhausted, having written no mailbox register    *)
(* and no abort bit of the status register.                                *)
(***************************************************************************)
C3_Exhaustion ==
    (InTx /\ tme_seen = <<FALSE, FALSE, FALSE>>)
        => /\ result = "BufferExhausted"
           /\ pc = "idle"
           /\ log = <<>>
           /\ MailboxRegs = pre_mb

C3_Witness == InTx /\ result = "BufferExhausted" /\ tme_seen = <<FALSE, FALSE, FALSE>>

(***************************************************************************)
(* C4.  Timeout abort: transmit returns Timeout after exactly               *)
(* MAX_BLOCK_TICKS failed status polls, no fewer and no more, and writes   *)
(* the abort request of the selected mailbox exactly once, as the last     *)
(* register access of the call.                                            *)
(***************************************************************************)
C4_TimeoutAbort ==
    InTx =>
        /\ polls <= MAX_BLOCK_TICKS
        /\ (polls = MAX_BLOCK_TICKS <=> result = "Timeout")
        /\ (result = "Timeout" =>
               /\ pc = "idle"
               /\ Cardinality(LogIdx(IsTsrWrite)) = 1
               /\ log[Len(log)] = Ev("W", "TSR", sel, "ABRQ", 1))
        /\ (result # "Timeout" => LogIdx(IsTsrWrite) = {})

C4_Witness == InTx /\ result = "Timeout" /\ ~seen_complete /\ tsr[sel].abrq

(***************************************************************************)
(* C5.  Completion condition: once the mailbox is loaded, transmit returns *)
(* Ok if and only if one of its status polls read request-completed,       *)
(* transmit-ok and mailbox-empty all set; otherwise it returns Timeout.    *)
(* A call that returns Ok has issued no abort request.                     *)
(***************************************************************************)
C5_Completion ==
    Loaded =>
        /\ (result = "Ok" <=> seen_complete)
        /\ (pc = "idle" => result \in {"Ok", "Timeout"})
        /\ (pc # "idle" => result = "None")
        /\ (result = "Ok" => LogIdx(IsTsrWrite) = {})

\* Ok after polls that read the mailbox as not yet complete.
C5_Witness == Loaded /\ result = "Ok" /\ polls > 0

(***************************************************************************)
(* C6.  Transmit ordering: TXRQ is set only after the identifier, the      *)
(* remote bit of a remote frame, the data length and every payload byte   *)
(* have been written and TGT has been cleared; no identifier, length or   *)
(* data register of the mailbox is written after it within the call.       *)
(***************************************************************************)
C6_Ordering ==
    InTx =>
        \A k \in LogIdx(IsTxrq) :
            LET before(reg, field) ==
                    \E j \in 1..(k - 1) : /\ log[j].op = "W"
                                          /\ log[j].idx = sel
                                          /\ log[j].reg = reg
                                          /\ log[j].field = field
                n == Len(frame.data)
            IN /\ before("TIR", IF frame.id.variant = "ExtendedID" THEN "EXID" ELSE "STID")
               /\ (frame.tag = "RemoteFrame" => before("TIR", "RTR"))
               /\ before("TDTR", "DLC")
               /\ before("TDTR", "TGT")
               /\ \A b \in 0..(n - 1) :
                      before(IF b < 4 THEN "TDLR" ELSE "TDHR", LaneField(b))
               /\ \A j \in (k + 1)..Len(log) : ~IsMailboxWrite(log[j])
               /\ Cardinality(LogIdx(IsTxrq)) = 1

\* The request of a full eight byte payload.
C6_Witness == Loaded /\ Len(frame.data) = 8 /\ tir[sel].txrq /\ tdhr[sel][4] = 136

(***************************************************************************)
(* C11.  Invalid length on encode: a transmit of a Data Frame whose        *)
(* payload is longer than 8 bytes that has selected a mailbox returns      *)
(* InvalidFrame having written no payload byte and no data length to the   *)
(* mailbox and having requested no transmission.                           *)
(***************************************************************************)
TooLong == InTx /\ frame.tag = "DataFrame" /\ Len(frame.data) > 8
IsPayloadWrite(e) == e.op = "W" /\ e.reg \in {"TDLR", "TDHR"}
IsDlcWrite(e) == e.op = "W" /\ e.reg = "TDTR" /\ e.field = "DLC"

C11_InvalidEncode ==
    (TooLong /\ sel # NoSel /\ pc = "idle")
        => /\ result = "InvalidFrame"
           /\ LogIdx(IsPayloadWrite) = {}
           /\ LogIdx(IsDlcWrite) = {}
           /\ LogIdx(IsTxrq) = {}

(***************************************************************************)
(* C7.  Receive emptiness: receive on a FIFO whose pending count is 0      *)
(* returns BufferExhausted after the one read of the pending count: no     *)
(* register is written and no identifier, length or data register is read. *)
(***************************************************************************)
C7_RxEmpty ==
    (InRx /\ rx_pending = 0)
        => /\ result = "BufferExhausted"
           /\ pc = "idle"
           /\ log = <<Ev("R", "RFR", rx_sel, "FMP", 0)>>
           /\ rx_after = 0

\* An empty FIFO read while the other FIFO holds a frame.
C7_Witness ==
    InRx /\ rx_pending = 0 /\ result = "BufferExhausted" /\ Len(rxfifo[1 - rx_sel]) > 0

(***************************************************************************)
(* C8.  Receive release: a receive that returns Ok(frame) writes the       *)
(* FIFO's control register exactly once, after every read of the FIFO's    *)
(* identifier, length and data registers, with the release bit set and the *)
(* overrun and full flags clear whatever was read; the pending count drops *)
(* by exactly one.  A receive that returns an error writes nothing.        *)
(***************************************************************************)
C8_Release ==
    InRx =>
        /\ (result = "Ok" =>
               /\ Cardinality(LogIdx(IsWrite)) = 1
               /\ log[Len(log)] = Ev("W", "RFR", rx_sel, "ALL", 4)
               /\ LogIdx(IsRxDataRead) # {}
               /\ rx_after = rx_pending - 1)
        /\ (result # "Ok" => LogIdx(IsWrite) = {} /\ rx_after = rx_pending)

\* A release that found both the overrun and the full flag set.
C8_Witness ==
    /\ InRx
    /\ result = "Ok"
    /\ rx_pending = 3
    /\ \E k \in 1..Len(log) : log[k] = Ev("R", "RFR", rx_sel, "ALL", 3)

(***************************************************************************)
(* C9.  Per-FIFO arrival order: absent overrun, the frames returned by the *)
(* successful receive calls on a FIFO are the frames the hardware          *)
(* deposited into that FIFO, in the order of their arrival, none skipped   *)
(* or duplicated; what is deposited is either returned or still pending    *)
(* in that same FIFO.                                                      *)
(***************************************************************************)
C9_ArrivalOrder ==
    \A f \in Fifos :
        ~overrun[f] =>
            /\ Len(returned[f]) + Len(rxfifo[f]) = Len(deposited[f])
            /\ \A k \in 1..Len(returned[f]) :
                   returned[f][k] = FrameOfWire(deposited[f][k])

(***************************************************************************)
(* C10.  Invalid length on decode.  As claimed: a receive on a FIFO whose  *)
(* pending frame has a data-length field above 8 yields InvalidFrame.      *)
(***************************************************************************)
BadLength == InRx /\ rx_pending > 0 /\ rx_head.rdtr.dlc > 8
LaneReads == LogIdx(LAMBDA e : e.op = "R" /\ e.reg \in {"RDLR", "RDHR"})

\* The identifier decode of receive_fifo1 panics (overflow checks compiled in).
IdPanics == rx_sel = 1 /\ rx_head.rir.ide /\ overflow_checks

C10_Original == BadLength => result = "InvalidFrame"

(***************************************************************************)
(* C10, amended.  For a pending data frame (RTR clear) whose data-length   *)
(* field is above 8, receive yields InvalidFrame, never a frame, having    *)
(* read the lanes 0..7 once each and no other, and having written nothing; *)
(* a pending remote frame (RTR set) is returned as Ok(RemoteFrame)         *)
(* whatever its data-length field.  On FIFO 1 a build with overflow checks *)
(* panics in the decode of an extended identifier before either.           *)
(***************************************************************************)
C10_InvalidLength ==
    BadLength =>
        /\ (IdPanics => result = "Panic" /\ LaneReads = {} /\ LogIdx(IsWrite) = {})
        /\ (~IdPanics /\ ~rx_head.rir.rtr =>
              /\ result = "InvalidFrame"
              /\ rx_frame = NoFrame
              /\ LogIdx(IsWrite) = {}
              /\ rx_after = rx_pending
              /\ {log[k].field : k \in LaneReads} = {LaneField(b) : b \in 0..7}
              /\ Cardinality(LaneReads) = 8)
        /\ (~IdPanics /\ rx_head.rir.rtr =>
              /\ result = "Ok"
              /\ rx_frame.tag = "RemoteFrame"
              /\ LaneReads = {})

\* An extended data frame with length field 10 at the head of FIFO 1.
C10_Witness ==
    BadLength /\ result = "InvalidFrame" /\ rx_sel = 1 /\ rx_head.rdtr.dlc = 10

(***************************************************************************)
(* Helpers of the claims about configure_filter.                           *)
(***************************************************************************)
InFlt == op = "configure_filter"
FltBit == filter_num_bitpos(config.filter_number)
IsFa1rWrite(e, v) == e.op = "W" /\ e.reg = "FA1R" /\ e.idx = FltBit /\ e.val = v
IsFltProgram(e) ==
    /\ e.op = "W"
    /\ \/ e.reg \in {"FS1R", "FM1R", "FFA1R"} /\ e.idx = FltBit
       \/ e.reg \in {"FR1", "FR2"} /\ e.idx = config.filter_number
IsFinitClear(e) == e.op = "W" /\ e.reg = "FMR" /\ e.field = "FINIT" /\ e.val = 0

(***************************************************************************)
(* C12.  Filter index bound, result: a configure_filter call with a filter *)
(* number of 28 or more ends by returning ConfigurationFailed: it neither  *)
(* panics nor returns Ok.                                                  *)
(***************************************************************************)
C12_IndexBound ==
    (InFlt /\ config.filter_number >= 28) => result = "ConfigurationFailed"

(***************************************************************************)
(* C13.  Filter index bound, no writes: a configure_filter call with a     *)
(* filter number of 28 or more that returned ConfigurationFailed made no   *)
(* register write, and every filter register holds its pre-call value.     *)
(***************************************************************************)
C13_NoWrites ==
    (InFlt /\ config.filter_number >= 28 /\ result = "ConfigurationFailed")
        => /\ LogIdx(IsWrite) = {}
           /\ FltRegs = pre_flt

(***************************************************************************)
(* C14.  configure_filter leaves filter initialization mode: when the call *)
(* has returned, Ok or ConfigurationFailed, FINIT is clear; and a failed   *)
(* call leaves the activation and the scale bit of every filter as they    *)
(* were before the call.                                                   *)
(***************************************************************************)
C14_LeavesInit ==
    (InFlt /\ pc = "idle")
        => /\ ~fmr.finit
           /\ (result = "ConfigurationFailed" =>
                  \A i \in Filters : /\ (i \in fa1r <=> i \in pre_flt.fa1r)
                                     /\ (i \in fs1r <=> i \in pre_flt.fs1r))

(***************************************************************************)
(* C15.  32 bit filter layout: after a successful configure_filter with    *)
(* the 32 bit scale on filter n, FnR1 holds (id_high << 16) | id_low and   *)
(* FnR2 holds (mask_high << 16) | mask_high, both modulo 2^32, in mask and *)
(* in list mode and for every n in 0..27; id_high = 0x1234,                *)
(* id_low = 0x5678, mask_high = 0, mask_low = 0xFFFF gives                 *)
(* FnR1 = 0x12345678 and FnR2 = 0.                                         *)
(***************************************************************************)
C15_Layout32 ==
    (InFlt /\ result = "Ok" /\ config.scale = "Fs32Bit")
        => LET n == config.filter_number
               ih == config.filter_id_high
               il == config.filter_id_low
               mh == config.filter_mask_id_high
           IN /\ n \in Filters
              /\ n \in DOMAIN fr1 /\ n \in DOMAIN fr2
              /\ fr1[n].lo = il.lo
              /\ fr1[n].hi = BitOr(ih.lo, il.hi)
              /\ fr2[n].lo = mh.lo
              /\ fr2[n].hi = BitOr(mh.lo, mh.hi)
              /\ (ih = Word(0, 4660) /\ il = Word(0, 22136) /\ mh = Word(0, 0)
                    => fr1[n] = Word(4660, 22136) /\ fr2[n] = Word(0, 0))

\* The example of the layout rule written to the last filter, after a filter
\* whose identifier fields have bits above bit 15 was written to the first.
C15_Witness ==
    /\ InFlt /\ result = "Ok" /\ config.scale = "Fs32Bit"
    /\ config.filter_number = 27
    /\ config.filter_mask_id_low = Word(0, 65535)
    /\ fr1[27] = Word(4660, 22136)
    /\ fr2[27] = Word(0, 0)
    /\ 0 \in DOMAIN fr1 /\ fr1[0] = Word(1, 2)

(***************************************************************************)
(* C16.  16 bit filter layout: after a successful configure_filter with    *)
(* the 16 bit scale on filter n, the low and the high half of FnR1 are the *)
(* low 16 bits of filter_id_low and of filter_mask_id_low, those of FnR2   *)
(* the low 16 bits of filter_id_high and of filter_mask_id_high: each half *)
(* depends on one configuration field only.                                *)
(***************************************************************************)
C16_Layout16 ==
    (InFlt /\ result = "Ok" /\ config.scale = "Fs16Bit")
        => LET n == config.filter_number
           IN /\ n \in DOMAIN fr1 /\ n \in DOMAIN fr2
              /\ fr1[n] = Word(config.filter_mask_id_low.lo, config.filter_id_low.lo)
              /\ fr2[n] = Word(config.filter_mask_id_high.lo, config.filter_id_high.lo)

(***************************************************************************)
(* C17.  Filter programming order: in a configure_filter call that         *)
(* returned, every write of the target filter's scale, identifier/mask,    *)
(* mode or FIFO-assignment follows the clearing of its activation bit and  *)
(* precedes any setting of it; the activation bit is set at most once,     *)
(* only if `enabled`, after all of those writes and before FINIT is        *)
(* cleared; a successful call with `enabled` does set it.                  *)
(***************************************************************************)
C17_FilterOrder ==
    (InFlt /\ pc = "idle") =>
        LET deact == {k \in 1..Len(log) : IsFa1rWrite(log[k], 0)}
            act == {k \in 1..Len(log) : IsFa1rWrite(log[k], 1)}
            prog == LogIdx(IsFltProgram)
            leave == LogIdx(IsFinitClear)
        IN /\ \A k \in prog : /\ \E j \in deact : j < k
                              /\ \A a \in act : k < a
           /\ Cardinality(act) <= 1
           /\ (act # {} => config.enabled)
           /\ \A a \in act : \E l \in leave : a < l
           /\ (result = "Ok" =>
                  /\ Cardinality(prog) = 5
                  /\ (config.enabled => act # {})
                  /\ (FltBit \in fa1r <=> config.enabled))

\* An active filter is reprogrammed and activated again.
C17_Witness ==
    /\ InFlt /\ result = "Ok" /\ config.enabled
    /\ config.filter_number = 27
    /\ 27 \in pre_flt.fa1r
    /\ 27 \in fa1r
    /\ pre_flt.fr1[27] # fr1[27]

(***************************************************************************)
(* Helpers of the claims about the constructors.                           *)
(***************************************************************************)
InCtor == op = "ctor"
Returned == InCtor /\ pc = "idle" /\ result = "Ok"
IsSettingWrite(e) ==
    /\ e.op = "W"
    /\ \/ e.reg = "MCR" /\ e.field \in {"ttcm", "abom", "awum", "nart", "rflm", "txfp"}
       \/ e.reg = "BTR" /\ e.field \in {"silm", "lbkm", "sjw", "ts1", "ts2", "brp"}
IsInitRequest(e) == e.op = "W" /\ e.reg = "MCR" /\ e.field = "inrq" /\ e.val = 1
IsExitRequest(e) == e.op = "W" /\ e.reg = "MCR" /\ e.field = "inrq" /\ e.val = 0
IsInitAck(e) == e.op = "R" /\ e.reg = "MSR" /\ e.field = "inak" /\ e.val = 1
IsClockEnable(e) == e.op = "W" /\ e.reg = "ENR"
IsRstSet(e) == e.op = "W" /\ e.reg = "RSTR" /\ e.val = 1
IsRstClear(e) == e.op = "W" /\ e.reg = "RSTR" /\ e.val = 0
IsMasterReset(e) == e.op = "W" /\ e.reg = "MCR" /\ e.field = "reset"
IsMsrRead(e) == e.op = "R" /\ e.reg = "MSR"

(***************************************************************************)
(* C18.  Initialization order: in a constructor call the clock enable      *)
(* precedes the reset pulse, which precedes the request for initialization *)
(* mode; every write of a Configuration field follows a read of the        *)
(* acknowledgment that itself follows that request, and precedes the       *)
(* request to leave initialization mode; all twelve fields are written by  *)
(* then and none after it.                                                 *)
(***************************************************************************)
C18_InitOrder ==
    InCtor =>
        /\ \A k \in LogIdx(IsInitRequest) :
              \E c \in LogIdx(IsRstClear) :
                  /\ c < k
                  /\ \E s \in LogIdx(IsRstSet) :
                        /\ s < c
                        /\ \E e \in LogIdx(IsClockEnable) : e < s
        /\ \A k \in LogIdx(IsSettingWrite) :
              /\ \E a \in LogIdx(IsInitAck) :
                    /\ a < k
                    /\ \E r \in LogIdx(IsInitRequest) : r < a
              /\ \A x \in LogIdx(IsExitRequest) : k < x
        /\ \A x \in LogIdx(IsExitRequest) :
              {log[k].field : k \in {j \in LogIdx(IsSettingWrite) : j < x}}
                  = {"ttcm", "abom", "awum", "nart", "rflm", "txfp",
                     "silm", "lbkm", "sjw", "ts1", "ts2", "brp"}
        /\ (Returned => LogIdx(IsExitRequest) # {})

\* A finished construction that had to wait for the acknowledgment and
\* applied the non-default settings.
C18_Witness ==
    /\ Returned
    /\ settings.ttcm
    /\ mcr[inst].ttcm /\ btr[inst].lbkm /\ btr[inst].brp = 5 /\ btr[inst].ts1 = 15
    /\ \E k \in LogIdx(IsMsrRead) : log[k].val = 0 /\ k < 10

(***************************************************************************)
(* C19.  Mode-exit acknowledgment is per instance: when can1 has returned, *)
(* its last register access is a read of the acknowledge flag as clear,    *)
(* made after its exit request; when can2 has returned, its last register  *)
(* access is the exit request itself.                                      *)
(***************************************************************************)
C19_ExitAck ==
    Returned =>
        /\ Cardinality(LogIdx(IsExitRequest)) = 1
        /\ \A x \in LogIdx(IsExitRequest) :
              IF inst = 1
              THEN /\ x < Len(log)
                   /\ log[Len(log)] = Ev("R", "MSR", 1, "inak", 0)
                   /\ \A k \in (x + 1)..Len(log) : IsMsrRead(log[k])
              ELSE x = Len(log)

\* can2 has returned and the hardware still reports initialization mode.
C19_Witness == Returned /\ inst = 2 /\ msr[2].inak /\ built[2].done

(***************************************************************************)
(* C20 as stated: the constructor of the secondary controller issues no    *)
(* reset request, neither a peripheral reset pulse nor a master reset.     *)
(***************************************************************************)
C20_Original ==
    (InCtor /\ inst = 2) =>
        /\ LogIdx(IsRstSet) = {}
        /\ LogIdx(IsMasterReset) = {}

(***************************************************************************)
(* C20.  Each constructor resets its own controller only: every register   *)
(* access of a constructor call is to the enable bit, the reset line or a  *)
(* register of its own instance; a finished call of either constructor has *)
(* pulsed that reset line once and set the master-reset bit once; and      *)
(* while and after can2 runs, the registers of an already constructed CAN1 *)
(* are as can1 left them.                                                  *)
(***************************************************************************)
C20_OwnReset ==
    InCtor =>
        /\ \A k \in 1..Len(log) : log[k].idx = inst
        /\ (Returned => /\ Cardinality(LogIdx(IsRstSet)) = 1
                        /\ Cardinality(LogIdx(IsRstClear)) = 1
                        /\ Cardinality(LogIdx(IsMasterReset)) = 1)
        /\ (inst = 2 /\ built[1].done => InitRegsOf(1) = built[1].regs)

\* can2 has been constructed after a can1 that applied non-default settings.
C20_Witness ==
    /\ Returned /\ inst = 2
    /\ built[1].done /\ built[1].regs.mcr.ttcm
    /\ mcr[1].ttcm /\ ~mcr[2].ttcm
    /\ LogIdx(IsRstSet) # {}

(***************************************************************************)
(* Helpers of the claims about the encoder.  Bits 31:3 of the identifier   *)
(* register are STID (31:21) followed by EXID (20:3).                      *)
(***************************************************************************)
IdWritten == InTx /\ sel # NoSel /\ LogIdx(LAMBDA e : e.op = "W" /\ e.reg = "TIR") # {}
TirBits31to3(i) == tir[i].stid * ExidWidth + tir[i].exid

(***************************************************************************)
(* C29.  Identifier encoding: once transmit has written the identifier of  *)
(* a frame to the mailbox, for an Extended identifier e bits 31:3 of the   *)
(* identifier register equal e and the extended bit is set; for a Base     *)
(* identifier b bits 31:21 equal b, bits 20:3 are zero and the extended    *)
(* bit is clear.                                                           *)
(***************************************************************************)
C29_IdEncoding ==
    IdWritten =>
        IF frame.id.variant = "ExtendedID"
        THEN tir[sel].ide /\ TirBits31to3(sel) = frame.id.value
        ELSE ~tir[sel].ide /\ tir[sel].stid = frame.id.value /\ tir[sel].exid = 0

(***************************************************************************)
(* C30.  Frame type and payload encoding: when a frame of at most eight    *)
(* bytes has been loaded and requested, the writes after the identifier    *)
(* are, for a Remote Frame, the remote bit, data length 0, TGT and TXRQ    *)
(* and no data register; for a Data Frame of length n no remote bit, data  *)
(* length n, byte i to lane i for each i < n in ascending order (lanes     *)
(* 0..3 in the low, 4..7 in the high data register), TGT and TXRQ; the     *)
(* lanes i >= n keep what they held; and this is so on every mailbox.      *)
(***************************************************************************)
EncodedWrites(fr, i) ==
    LET n == Len(fr.data)
    IN (IF fr.tag = "RemoteFrame" THEN <<Ev("W", "TIR", i, "RTR", 1)>> ELSE <<>>)
       \o <<Ev("W", "TDTR", i, "DLC", n)>>
       \o [k \in 1..n |-> Ev("W", IF k <= 4 THEN "TDLR" ELSE "TDHR", i,
                             LaneField(k - 1), fr.data[k])]
       \o <<Ev("W", "TDTR", i, "TGT", 0), Ev("W", "TIR", i, "TXRQ", 1)>>

C30_PayloadEncoding ==
    (Loaded /\ Len(frame.data) <= 8) =>
        LET n == Len(frame.data)
        IN /\ SubSeq(log, 2, Len(log)) = EncodedWrites(frame, sel)
           /\ tir[sel].rtr = (frame.tag = "RemoteFrame")
           /\ tdtr[sel].dlc = n
           /\ \A b \in 0..7 :
                 LET now == IF b < 4 THEN tdlr[sel][b + 1] ELSE tdhr[sel][b - 3]
                     was == IF b < 4 THEN pre_mb.tdlr[sel][b + 1]
                                     ELSE pre_mb.tdhr[sel][b - 3]
                 IN now = IF b < n THEN frame.data[b + 1] ELSE was

\* Five bytes loaded into mailbox 2 over stale data: lane 4 is new, lane 5 is not.
C30_Witness ==
    /\ Loaded /\ sel = 2 /\ frame.tag = "DataFrame" /\ Len(frame.data) = 5
    /\ tdhr[2][1] = 85 /\ tdhr[2][2] = 238

(***************************************************************************)
(* C25.  Serialized filter writes stay inside initialization mode: in a    *)
(* sequence of configure_filter calls made one after the other, a call     *)
(* that returned, Ok or ConfigurationFailed, set FINIT as its first and    *)
(* cleared it as its last register access, once each, and every write of   *)
(* the start bank, of an activation, scale, mode or FIFO-assignment bit    *)
(* and of an identifier/mask register lies between the two.                *)
(***************************************************************************)
IsFinitSet(e) == e.op = "W" /\ e.reg = "FMR" /\ e.field = "FINIT" /\ e.val = 1
IsFltWrite(e) == e.op = "W" /\ ~(e.reg = "FMR" /\ e.field = "FINIT")

C25_InsideInit ==
    (InFlt /\ pc = "idle") =>
        /\ \A k \in LogIdx(IsFltWrite) :
              /\ \E s \in LogIdx(IsFinitSet) :
                    /\ s < k
                    /\ \A x \in LogIdx(IsFinitClear) : x > k
              /\ \E x \in LogIdx(IsFinitClear) : x > k
        /\ Len(log) >= 2
        /\ IsFinitSet(log[1])
        /\ IsFinitClear(log[Len(log)])
        /\ Cardinality(LogIdx(IsFinitSet)) = 1
        /\ Cardinality(LogIdx(IsFinitClear)) = 1
        /\ ~fmr.finit

\* A second call, entered with FINIT clear, that took the error path after
\* it had written the start bank, the activation and the scale bit.
C25_Witness ==
    /\ InFlt /\ result = "ConfigurationFailed"
    /\ flt_calls = 2
    /\ ~pre_flt.fmr.finit
    /\ Cardinality(LogIdx(IsFltWrite)) = 3

(***************************************************************************)
(* C26.  Filter post-state and frame: after a successful configure_filter  *)
(* on filter n, n is in 0..27, bit n of the activation register equals     *)
(* `enabled`, bit n of the scale register is 1 iff the scale is 32 bit,    *)
(* bit n of the mode register is 1 iff the mode is list, bit n of the      *)
(* FIFO-assignment register is 1 iff the FIFO is FIFO 1; every other bit   *)
(* of those four registers and the identifier/mask registers of every      *)
(* other filter are as before the call.                                    *)
(***************************************************************************)
C26_PostState ==
    (InFlt /\ result = "Ok") =>
        LET n == config.filter_number
        IN /\ n \in Filters
           /\ (n \in fa1r <=> config.enabled)
           /\ (n \in fs1r <=> config.scale = "Fs32Bit")
           /\ (n \in fm1r <=> config.mode = "IdList")
           /\ (n \in ffa1r <=> config.fifo_assignment = "Fifo1")
           /\ \A m \in 0..31 :
                 m # n => /\ (m \in fa1r <=> m \in pre_flt.fa1r)
                          /\ (m \in fs1r <=> m \in pre_flt.fs1r)
                          /\ (m \in fm1r <=> m \in pre_flt.fm1r)
                          /\ (m \in ffa1r <=> m \in pre_flt.ffa1r)
           /\ \A m \in Filters :
                 m # n => /\ (m \in DOMAIN fr1 <=> m \in DOMAIN pre_flt.fr1)
                          /\ (m \in DOMAIN fr2 <=> m \in DOMAIN pre_flt.fr2)
                          /\ (m \in DOMAIN fr1 => fr1[m] = pre_flt.fr1[m])
                          /\ (m \in DOMAIN fr2 => fr2[m] = pre_flt.fr2[m])

\* Filter 27 programmed as a disabled 16 bit list filter on FIFO 1 while
\* filter 0 is an active 32 bit mask filter.
C26_Witness ==
    /\ InFlt /\ result = "Ok"
    /\ config.filter_number = 27
    /\ ~config.enabled /\ config.scale = "Fs16Bit"
    /\ 27 \in fm1r /\ 27 \in ffa1r /\ 27 \notin fa1r /\ 27 \notin fs1r
    /\ 0 \in pre_flt.fa1r /\ 0 \in fa1r /\ 0 \in fs1r
    /\ 0 \in DOMAIN fr1 /\ fr1[0] = Word(4660, 22136)

(***************************************************************************)
(* C23.  Shared filter bank: a configure_filter call through either        *)
(* handle accesses registers of the CAN1 block only; run without an        *)
(* interleaved access of the other context, it makes the accesses, returns *)
(* the status and leaves the filter registers that the configuration       *)
(* yields from the registers it started from, whichever handle it was made *)
(* through; and the registers of the CAN2 block stay as the constructor    *)
(* left them.                                                              *)
(***************************************************************************)
FltReturned(h) ==
    flt_ctx[h].pos = 0 /\ flt_ctx[h].status \in {"Ok", "ConfigurationFailed"}

C23_SharedBank ==
    \A h \in Instances :
        LET x == flt_ctx[h]
            e == RunSteps(FltState(x.pre, <<>>), configure_filter_steps, x.config)
        IN /\ x.blocks \subseteq {1}
           /\ InitRegsOf(2) = built[2].regs
           /\ FltReturned(h) =>
                 /\ x.blocks = {1}
                 /\ x.log = e.log
                 /\ x.status = e.status
                 /\ x.alone => FltState(x.post, x.log) = [e EXCEPT !.status = "None"]

\* Filter 27 programmed through the CAN2 handle, the call running alone.
C23_Witness ==
    /\ FltReturned(2) /\ flt_ctx[2].alone /\ flt_ctx[2].status = "Ok"
    /\ flt_ctx[2].config.filter_number = 27
    /\ 27 \notin flt_ctx[2].pre.fa1r
    /\ 27 \in fa1r /\ 27 \in ffa1r
    /\ 27 \in DOMAIN fr1

(***************************************************************************)
(* C24.  No internal lock on the filter bank: a call writes an activation, *)
(* scale, mode or FIFO-assignment bit or an identifier/mask register while *)
(* FINIT is clear, that is, outside filter initialization mode, only when  *)
(* an access of the other context fell inside the call, and then it does:  *)
(* the other call's FINIT clear is reached before the call's own remaining *)
(* writes.                                                                 *)
(***************************************************************************)
IsFilterRegWrite(e) ==
    e.op = "W" /\ e.reg \in {"FA1R", "FS1R", "FM1R", "FFA1R", "FR1", "FR2"}
OutsideInit(h) ==
    {k \in flt_ctx[h].outside : IsFilterRegWrite(flt_ctx[h].log[k])}

C24_NoLock ==
    \A h \in Instances : OutsideInit(h) # {} => ~flt_ctx[h].alone

\* Both calls have returned Ok, one through each handle, and the call through
\* the CAN1 handle wrote a filter register while FINIT was clear.
C24_Witness ==
    /\ \A h \in Instances : FltReturned(h) /\ flt_ctx[h].status = "Ok"
    /\ OutsideInit(1) # {}
    /\ ~fmr.finit

(***************************************************************************)
(* C21.  Initialization waits are unbounded: while the constructor is at   *)
(* its wait for the initialization acknowledge and the flag is clear, or   *)
(* (can1 only) at its wait for the exit acknowledge and the flag is set,   *)
(* no step takes it out of the wait or makes it return, however many reads *)
(* it has made; with a controller that eventually acknowledges each        *)
(* standing request, every constructor call returns Ok.                    *)
(***************************************************************************)
WaitingInit == CtorAt("wait_init") /\ ~msr[inst].inak
WaitingLeave == CtorAt("wait_leave") /\ init_wait(inst) /\ msr[inst].inak

C21_UnboundedWait ==
    /\ [][(WaitingInit \/ WaitingLeave) =>
             (pc' = "ctor" /\ step' = step /\ inst' = inst /\ ~built'[inst].done)]_vars
    /\ (pc = "ctor") ~> Returned

\* can1 has returned after it read the acknowledge flag clear while waiting
\* to enter, and set while waiting to leave, initialization mode.
C21_Witness ==
    /\ Returned /\ inst = 1
    /\ \E a \in LogIdx(IsInitAck), x \in LogIdx(IsExitRequest) :
          /\ a < x
          /\ \E k \in 1..(a - 1) : IsMsrRead(log[k]) /\ log[k].val = 0
          /\ \E k \in (x + 1)..Len(log) : IsMsrRead(log[k]) /\ log[k].val = 1

(***************************************************************************)
(* Helpers of the claims about sequences of transmit calls.                *)
(***************************************************************************)
TimesOut == result # "Timeout" /\ result' = "Timeout"
Loading == InTx /\ pc \in {"ld_id", "ld_rtr", "ld_dlc", "ld_data", "ld_tgt", "ld_txrq"}
\* The identifier, length and data registers of mailbox i.
Content(i) == <<[tir[i] EXCEPT !.txrq = FALSE], tdtr[i], tdlr[i], tdhr[i]>>

(***************************************************************************)
(* C22.  Best-effort abort: the step by which transmit returns Timeout     *)
(* writes the abort request and returns without a further read of the      *)
(* status register: the mailbox's empty flag is as it was before the step, *)
(* and a mailbox that is not empty is left with its abort request pending. *)
(* So a transmit call that follows at once with all three empty flags      *)
(* still clear returns BufferExhausted.                                    *)
(***************************************************************************)
C22_BestEffortAbort ==
    /\ [][TimesOut =>
             /\ tsr'[sel].tme = tsr[sel].tme
             /\ (~tsr[sel].tme => tsr'[sel].abrq /\ tir'[sel].txrq)
             /\ polls' = MAX_BLOCK_TICKS
             /\ pc' = "idle"]_vars
    /\ []((InTx /\ result = "Timeout") =>
             /\ log[Len(log)] = Ev("W", "TSR", sel, "ABRQ", 1)
             /\ polls = MAX_BLOCK_TICKS)

\* The second call found mailbox 2, on which the first call timed out, still
\* pending with its abort requested, and returned BufferExhausted.
C22_Witness ==
    /\ InTx /\ calls = 2 /\ result = "BufferExhausted"
    /\ tme_seen = <<FALSE, FALSE, FALSE>>
    /\ tir[2].txrq /\ tsr[2].abrq /\ ~tsr[2].tme
    /\ tir[2].stid = 291

(***************************************************************************)
(* C27.  A pending mailbox is never overwritten: in any sequence of        *)
(* transmit calls and hardware steps, the mailbox a call is loading is     *)
(* empty and holds no request; while a mailbox holds a request, no step    *)
(* changes its identifier, length or data registers; and a mailbox that    *)
(* holds a request is not empty.                                           *)
(***************************************************************************)
C27_NoOverwrite ==
    /\ [](Loading => tsr[sel].tme /\ ~tir[sel].txrq)
    /\ [](\A i \in Mailboxes : tir[i].txrq => ~tsr[i].tme)
    /\ [][\A i \in Mailboxes : tir[i].txrq => Content(i)' = Content(i)]_vars

\* The second call has loaded and requested mailbox 0 while mailbox 2 still
\* holds the frame of the first call, which timed out.
C27_Witness ==
    /\ Loaded /\ calls = 2 /\ sel = 0
    /\ tir[0].txrq /\ tir[0].rtr /\ tir[0].exid = 1
    /\ tir[2].txrq /\ tsr[2].abrq /\ tir[2].stid = 291 /\ tdtr[2].dlc = 2

(***************************************************************************)
(* C28.  Transmit frame effect: a transmit call writes only the            *)
(* identifier, length and data registers of the mailbox it selected and,   *)
(* when it times out, the status register; the registers of the other two  *)
(* mailboxes are as before the call; and the status-register write changes *)
(* only the abort-request bit of the selected mailbox: no abort bit of     *)
(* another mailbox and no request-completed or transmit-ok flag of any     *)
(* mailbox.                                                                *)
(***************************************************************************)
C28_TxFrameEffect ==
    /\ [](InTx =>
             /\ \A k \in LogIdx(IsWrite) :
                   /\ log[k].idx = sel
                   /\ log[k].reg \in {"TIR", "TDTR", "TDLR", "TDHR", "TSR"}
                   /\ (log[k].reg = "TSR" => result = "Timeout")
             /\ \A i \in Mailboxes \ {sel} :
                   Content(i) = <<pre_mb.tir[i], pre_mb.tdtr[i], pre_mb.tdlr[i],
                                  pre_mb.tdhr[i]>>)
    /\ [][TimesOut =>
             \A i \in Mailboxes :
                 /\ tsr'[i].rqcp = tsr[i].rqcp
                 /\ tsr'[i].txok = tsr[i].txok
                 /\ tsr'[i].tme = tsr[i].tme
                 /\ (i # sel => tsr'[i].abrq = tsr[i].abrq)]_vars

(***************************************************************************)
(* C31.  Failed completion is reported as Timeout: while transmit waits    *)
(* for completion and the status register shows the mailbox as completed   *)
(* without success (RQCP set, TXOK clear, TME set), no step returns Ok;    *)
(* a step either leaves the call waiting with the status kept, or it is    *)
(* the poll that reaches MAX_BLOCK_TICKS, which writes the abort request   *)
(* of the mailbox, still empty, and returns Timeout.                       *)
(***************************************************************************)
Polling == InTx /\ pc \in {"poll_rqcp", "poll_txok", "poll_tme"}
FailedStatus == tsr[sel].rqcp /\ ~tsr[sel].txok /\ tsr[sel].tme

C31_FailedIsTimeout ==
    [][(Polling /\ FailedStatus) =>
          /\ result' # "Ok"
          /\ sel' = sel
          /\ \/ Polling' /\ FailedStatus' /\ result' = "None"
             \/ /\ pc' = "idle"
                /\ result' = "Timeout"
                /\ ticks' = MAX_BLOCK_TICKS
                /\ polls' = MAX_BLOCK_TICKS
                /\ log' = Append(log, Ev("W", "TSR", sel, "ABRQ", 1))
                /\ tsr[sel].tme /\ tsr'[sel].tme
                /\ ~tir'[sel].txrq]_vars

\* The last poll of the budget is about to start on a mailbox that failed.
C31_Witness ==
    /\ Polling /\ FailedStatus
    /\ pc = "poll_rqcp"
    /\ ticks = MAX_BLOCK_TICKS - 1
    /\ polls = MAX_BLOCK_TICKS - 1

(***************************************************************************)
(* C32.  Error taxonomy per operation: a configure_filter call ends with   *)
(* Ok or ConfigurationFailed, and with ConfigurationFailed for every       *)
(* filter number of 28 or more; a transmit call ends with Ok,              *)
(* BufferExhausted, InvalidFrame or Timeout; a receive call ends with Ok,  *)
(* BufferExhausted or InvalidFrame.                                        *)
(***************************************************************************)
FltTaxonomy ==
    InFlt => /\ result \in {"Ok", "ConfigurationFailed"}
             /\ (config.filter_number >= 28 => result = "ConfigurationFailed")
TxTaxonomy ==
    (InTx /\ pc = "idle") =>
        result \in {"Ok", "BufferExhausted", "InvalidFrame", "Timeout"}
RxTaxonomy == InRx => result \in {"Ok", "BufferExhausted", "InvalidFrame"}

C32_ErrorTaxonomy == FltTaxonomy /\ TxTaxonomy /\ RxTaxonomy

(***************************************************************************)
(* C33.  Initialization performs no validation: a constructor call ends    *)
(* with no result but Ok, for every configuration; when it has returned,   *)
(* the timing register of its controller holds the configuration's raw     *)
(* values reduced to the field widths (SJW 2 bits, TS1 4 bits, TS2 3 bits, *)
(* BRP 10 bits) and the two mode bits, each written once by the call.      *)
(***************************************************************************)
TimingOf(s) ==
    [silm |-> s.silent_mode, lbkm |-> s.loopback_mode,
     sjw |-> s.bit_timing.sjw % 4, ts1 |-> s.bit_timing.bs1 % 16,
     ts2 |-> s.bit_timing.bs2 % 8, brp |-> s.bit_timing.prescaler % 1024]

C33_NoValidation ==
    InCtor =>
        /\ result \in {"None", "Ok"}
        /\ (Returned =>
               /\ result = "Ok"
               /\ built[inst].regs.btr = TimingOf(settings)
               /\ \A f \in {"sjw", "ts1", "ts2", "brp"} :
                     /\ Cardinality(LogIdx(LAMBDA e : e.op = "W" /\ e.reg = "BTR"
                                                      /\ e.field = f)) = 1
                     /\ \E k \in 1..Len(log) :
                           log[k] = Ev("W", "BTR", inst, f, TimingOf(settings)[f]))

\* can2 has returned Ok for a prescaler of 2055, a jump width of 6 and
\* segments of 25 and 12 quanta: the register holds 7, 2, 9 and 4.
C33_Witness ==
    /\ Returned /\ inst = 2 /\ result = "Ok"
    /\ settings.bit_timing = [prescaler |-> 2055, sjw |-> 6, bs1 |-> 25, bs2 |-> 12]
    /\ btr[2].brp = 7 /\ btr[2].sjw = 2 /\ btr[2].ts1 = 9 /\ btr[2].ts2 = 4

(***************************************************************************)
(* C34.  The two FIFO decoders are equivalent: with the same pending count *)
(* and the same content of the identifier, length and data registers of    *)
(* the two output mailboxes, receive_fifo0 and receive_fifo1 end with the  *)
(* same result, the same frame and the same release of the FIFO; for a     *)
(* pending frame with the extended bit set both compute the same           *)
(* identifier.                                                             *)
(***************************************************************************)
SameContent ==
    /\ Len(rxfifo[0]) = Len(rxfifo[1])
    /\ OutputMailbox(0) = OutputMailbox(1)
Outcome(r) == [status |-> r.status, frame |-> r.frame, release |-> r.release]

C34_DecodersEquivalent ==
    (pc = "idle" /\ SameContent) =>
        /\ Outcome(receive_fifo0) = Outcome(receive_fifo1)
        /\ (Len(rxfifo[0]) > 0 /\ OutputMailbox(0).rir.ide =>
               /\ ~overflow_checks
               /\ ext_id_fifo0(OutputMailbox(0).rir) = ext_id_fifo1(OutputMailbox(1).rir))

(***************************************************************************)
(* C35.  No release on a decode error: a receive call that returned        *)
(* InvalidFrame wrote no FIFO control register and left the pending count  *)
(* and the head frame as they were; and while the head of a FIFO is a      *)
(* frame receive answers with InvalidFrame, no step, of the driver or of   *)
(* the controller, changes that head or returns a frame from that FIFO:    *)
(* every later receive on it ends with InvalidFrame again and the frames   *)
(* queued behind are never returned.                                       *)
(***************************************************************************)
BadHead(f) == Len(rxfifo[f]) > 0 /\ receive(f).status = "InvalidFrame"

C35_NoRelease ==
    /\ []((InRx /\ result = "InvalidFrame") =>
             /\ LogIdx(IsRfrWrite) = {}
             /\ rx_after = rx_pending
             /\ OutputMailbox(rx_sel) = rx_head
             /\ BadHead(rx_sel))
    /\ [][\A f \in Fifos :
             BadHead(f) =>
                 /\ BadHead(f)'
                 /\ Head(rxfifo'[f]) = Head(rxfifo[f])
                 /\ Len(rxfifo'[f]) >= Len(rxfifo[f])
                 /\ returned'[f] = returned[f]
                 /\ (Receive(f) => result' = "InvalidFrame")]_vars

\* A receive on FIFO 1 answered InvalidFrame with two frames queued behind
\* the offending one, after FIFO 0 had returned a frame.
C35_Witness ==
    /\ InRx /\ result = "InvalidFrame" /\ rx_sel = 1
    /\ rx_pending = 3 /\ Len(rxfifo[1]) = 3
    /\ returned[1] = <<>>
    /\ deposited[1][2].dlc = 2

(***************************************************************************)
(* C36, amended.  Mailbox 0 preference: in a sequence of transmit calls made one    *)
(* after the other, a call that returned Ok left its mailbox empty; a      *)
(* mailbox that is pending and is not the one of the call in progress was  *)
(* left by a call that returned Timeout and has its abort requested; a     *)
(* call takes mailbox 1 or 2 only after it read every lower mailbox as not *)
(* empty, which happens only after some call has returned Timeout; and as  *)
(* long as no call has returned Timeout, every call takes mailbox 0 and at *)
(* most one mailbox is pending.                                            *)
(***************************************************************************)
Pending(i) == tir[i].txrq
OfCurrentCall(i) == InTx /\ pc # "idle" /\ i = sel

C36_Mailbox0Preference ==
    /\ (InTx /\ pc = "idle" /\ result = "Ok") =>
           tsr[sel].tme /\ ~Pending(sel)
    /\ \A i \in Mailboxes :
           /\ Pending(i) = ~tsr[i].tme
           /\ (Pending(i) /\ ~OfCurrentCall(i)) => (timed_out /\ tsr[i].abrq)
    /\ (InTx /\ sel > 0) =>
           /\ timed_out
           /\ \A k \in 1..sel : ~tme_seen[k]
    /\ ~timed_out =>
           /\ sel \in {NoSel, 0}
           /\ Cardinality({i \in Mailboxes : Pending(i)}) <= 1
           /\ \A i \in Mailboxes : Pending(i) => OfCurrentCall(i)
           /\ result # "BufferExhausted"

\* The third call is loading mailbox 2: it read mailboxes 0 and 1, left by the
\* two calls before it, which timed out, as not empty; since then the abort
\* of mailbox 0 has completed, mailbox 1 is still pending.
C36_Witness ==
    /\ Loading /\ calls = 3 /\ sel = 2
    /\ tme_seen = <<FALSE, FALSE, TRUE>>
    /\ ~Pending(0) /\ tsr[0].tme
    /\ Pending(1) /\ tsr[1].abrq
    /\ timed_out

(***************************************************************************)
(* C36 as stated: in addition, while a call loads mailbox 1 or 2, some     *)
(* lower-numbered mailbox still holds the frame of an earlier call that    *)
(* returned Timeout, neither sent nor aborted yet.                         *)
(***************************************************************************)
C36_Original ==
    /\ C36_Mailbox0Preference
    /\ (Loading /\ sel > 0) =>
           \E j \in 0..(sel - 1) : Pending(j) /\ tsr[j].abrq

(***************************************************************************)
(* C37.  The start bank is last-writer-wins: every configure_filter call   *)
(* that returned, Ok or ConfigurationFailed, through either handle, wrote  *)
(* its bank_number, reduced to the six bits of the field, to CAN2SB; the   *)
(* field changes only by such a write; and after calls made one after the  *)
(* other it holds the bank_number of the most recent call, whichever       *)
(* filter that call programmed.                                            *)
(***************************************************************************)
BankOf(c) == c.bank_number % 64
NoFltCallRunning == \A h \in Instances : flt_ctx[h].pos = 0

C37_StartBank ==
    /\ [](\A h \in Instances :
             FltReturned(h) =>
                 /\ \E k \in 1..Len(flt_ctx[h].log) :
                       flt_ctx[h].log[k] =
                           Ev("W", "FMR", 0, "CAN2SB", BankOf(flt_ctx[h].config))
                 /\ (flt_ctx[h].alone =>
                        flt_ctx[h].post.fmr.can2sb = BankOf(flt_ctx[h].config)))
    /\ []((/\ op = "configure_filter"
           /\ result \in {"Ok", "ConfigurationFailed"}
           /\ NoFltCallRunning
           /\ \A h \in Instances : flt_ctx[h].alone)
              => fmr.can2sb = BankOf(config))
    /\ [][fmr.can2sb' # fmr.can2sb =>
             \E h \in Instances :
                 /\ flt_ctx[h].pos > 0
                 /\ configure_filter_steps[flt_ctx[h].pos] = "can2sb"
                 /\ flt_ctx'[h].pos = flt_ctx[h].pos + 1
                 /\ fmr'.can2sb = BankOf(flt_ctx[h].config)]_vars

\* A call through the CAN1 handle set bank 14 and returned Ok; then a call
\* through the CAN2 handle for filter 32 with bank 255 returned
\* ConfigurationFailed and left the field at 63.
C37_Witness ==
    /\ FltReturned(1) /\ FltReturned(2)
    /\ flt_ctx[1].alone /\ flt_ctx[2].alone
    /\ flt_ctx[1].status = "Ok" /\ flt_ctx[1].post.fmr.can2sb = 14
    /\ flt_ctx[1].config.filter_number = 0
    /\ flt_ctx[2].status = "ConfigurationFailed"
    /\ flt_ctx[2].config.bank_number = 255
    /\ flt_ctx[2].pre.fmr.can2sb = 14
    /\ config = flt_ctx[2].config
    /\ fmr.can2sb = 63

(***************************************************************************)
(* C38.  Timer::start arithmetic: for every tick count in 1..2^32-1 the    *)
(* call does not panic: the prescaler (ticks - 1) / 65536 fits 16 bits,    *)
(* prescaler + 1 does not overflow 16 bits, the auto-reload value          *)
(* ticks / (prescaler + 1) fits 16 bits, and                               *)
(* (prescaler + 1) * auto-reload <= ticks.                                 *)
(***************************************************************************)
C38_TimerArithmetic ==
    tim.status # "None" =>
        /\ tim.status = "Started"
        /\ tim.psc < U16
        /\ tim.psc + 1 < U16
        /\ tim.arr.hi = 0
        /\ WordLeq(WordMul(tim.psc + 1, tim.arr.lo), tim.ticks)

(***************************************************************************)
(* C39.  Clock freeze divisors: for every sysclk of the PLL branch the     *)
(* divisors 1 << (ppre1_bits - 3) and 1 << (ppre2_bits - 3) are computed   *)
(* without underflow or shift overflow, and pclk1 and pclk2 are hclk       *)
(* divided by what the programmed prescaler bits select: 1 for bits below  *)
(* 0b100, 2 for 0b100, 4 for 0b101.                                        *)
(***************************************************************************)
SelectedDivisor(bits) == IF bits < 4 THEN 1 ELSE 2^(bits - 3)

C39_FreezeDivisors ==
    clk.status # "None" =>
        /\ clk.status = "Frozen"
        /\ clk.ppre1_bits >= 3 /\ clk.ppre2_bits >= 3
        /\ clk.pclk1 = clk.hclk \div SelectedDivisor(clk.ppre1_bits)
        /\ clk.pclk2 = clk.hclk \div SelectedDivisor(clk.ppre2_bits)

====
